---- MODULE Spec2Model ----
(***************************************************************************)
(* Key-sequence input processor of browserrc: the KeyProcessor state       *)
(* machine over per-mode tries, with its sequence / ambiguity timers and    *)
(* held-key repeat intervals.                                               *)
(*                                                                          *)
(* Two designs of the processor live in the repository and both are         *)
(* modelled; the variable `variant` says which one a behaviour runs:        *)
(*   "A"  callback-in-node   (action stored in the TrieNode,                *)
(*        pendingAmbiguousAction, dispatch = callback(metadata))            *)
(*   "B"  boolean-completable (isCompletable flag in the TrieNode,          *)
(*        pendingAmbiguousSequence, dispatch = onSequenceComplete /         *)
(*        onAmbiguousTimeout trigger)                                       *)
(*                                                                          *)
(* A TrieNode is identified by the key path that leads to it from the root  *)
(* of its trie; a Trie object is identified by an id in the heap `tries`.   *)
(***************************************************************************)
EXTENDS Integers, Sequences, FiniteSets, TLC

VARIABLES
    variant,        \* which design runs: "A" or "B"
    tries,          \* heap of Trie objects: id -> trie contents
    modes,          \* KeyProcessor.modes: mode name -> trie id
    currentMode,    \* KeyProcessor.currentMode
    currentRoot,    \* KeyProcessor.currentRoot (a trie id)
    currentNode,    \* KeyProcessor.currentNode (a key path in currentRoot)
    matchedPath,    \* KeyProcessor.matchedPath (sequence of nodes)
    timeoutId,      \* KeyProcessor.timeoutId (0 = null)
    timeoutType,    \* KeyProcessor.timeoutType
    pending,        \* pendingAmbiguousAction (A) / pendingAmbiguousSequence (B)
    isActive,       \* KeyProcessor.isActive
    heldKeys,       \* KeyProcessor.heldKeys: key-string -> [intervalId, info]
    onKeyCount,     \* number of listeners registered on the onKey hook
    timers,         \* platform: pending setTimeout callbacks
    intervals,      \* platform: running setInterval callbacks
    lastCall,       \* observation of the most recent operation
    attempt,        \* observation of the keys fed since the walk left the root
    walked,         \* observation of the keys consumed since the last ROOT
    hook,           \* a Hook object: its #listeners array and the entries made
    down,           \* platform: the physical keys that are held down
    placeholders    \* keyParser's PLACEHOLDERS map: name -> value

vars == <<variant, tries, modes, currentMode, currentRoot, currentNode,
          matchedPath, timeoutId, timeoutType, pending, isActive, heldKeys,
          onKeyCount, timers, intervals, lastCall, attempt, walked, hook, down,
          placeholders>>

----------------------------------------------------------------------------
(* Bounds of the model *)

MaxSeqLen == 3      \* longest key sequence that is bound
MaxBindings == 3    \* terminal nodes over all tries
MaxListeners == 1   \* listeners registered on onKey
MaxRegistrations == 3   \* calls of Hook.register on one hook
MaxNotationLen == 4     \* characters of a notation string that is tokenized

----------------------------------------------------------------------------
(* Values *)

Null == "null"
NoPending == <<"null">>          \* pendingAmbiguous* = null
RootNode == << >>                \* the path of a trie's root
DefaultMode == "n"
ModeNames == {"n", "i"}
ForceExecuteKeys == {"<Enter>"}
ModifierKeys == {"Shift", "Control", "Alt", "Meta"}

\* the modifier keys whose keydown and keyup are delivered by themselves
PressedModifiers == {"Shift", "Control"}

\* key-strings that are typed
KeyStrings == {"a", "b", "<Enter>"}
\* KeyboardEvent.key values of the non-modifier keys that are delivered
EventKeys == {"a", "b", "Enter"}

\* The sequence a, b, a, b, ... of length n
RECURSIVE Chain(_)
Chain(n) == IF n = 0 THEN << >>
            ELSE Append(Chain(n - 1), IF n % 2 = 1 THEN "a" ELSE "b")

\* Key sequences that get bound: a, ab, aba, ... and b
Bindable == {Chain(n) : n \in 1..MaxSeqLen} \cup {<<"b">>}

\* the key sequences given a repeat option: a key, a second key, and a
\* sequence that ends in the second key
RepeatBindable == {n \in Bindable : Len(n) <= 2}

\* the key sequences given to Trie.insert and Trie.find: the empty one, a
\* key, an extension of it, and a second key and its extension
TrieSeqs == {<< >>, <<"a">>, <<"a", "b">>, <<"b">>, <<"b", "a">>}

\* the actions given to Trie.insert of design A
Callbacks == {"f", "g"}

TrieIds == 1..(Cardinality(ModeNames) + 1)

----------------------------------------------------------------------------
(* TrieNode and Trie *)

\* new Trie(): a root node with key null, no children, not terminal,
\* forwardOnNonMatch true at the root
EmptyTrie == [nodes |-> {RootNode}, term |-> {}, action |-> {}, repeat |-> {},
              every |-> {}, fwd |-> {RootNode}]

\* values of options.repeat: not given, true, an object with an interval
NoOption == [given |-> FALSE, interval |-> 0]
RepeatTrue == [given |-> TRUE, interval |-> 0]
RepeatEvery == [given |-> TRUE, interval |-> 20]
RepeatOptions == {RepeatTrue, RepeatEvery}

\* repeatInterval, the default period of a repeat
RepeatInterval == 50

\* TrieNode.key
NodeKey(n) == IF n = RootNode THEN Null ELSE n[Len(n)]

\* TrieNode.getChild(key): the child node, or Null
GetChild(trie, n, k) == IF Append(n, k) \in trie.nodes THEN Append(n, k) ELSE Null

HasChild(trie, n, k) == Append(n, k) \in trie.nodes

\* TrieNode.hasChildren()
HasChildren(trie, n) == \E c \in trie.nodes : Len(c) = Len(n) + 1 /\ SubSeq(c, 1, Len(n)) = n

\* TrieNode.canComplete() (B) / TrieNode.isLeaf() (A): the terminal marker is set
CanComplete(trie, n) == n \in trie.term

\* TrieNode.action (A): the callback stored at n, or null
NodeAction(trie, n) ==
    IF \E e \in trie.action : e.node = n
    THEN (CHOOSE e \in trie.action : e.node = n).value
    ELSE NoPending

\* TrieNode.isAmbiguous()
IsAmbiguous(trie, n) == CanComplete(trie, n) /\ HasChildren(trie, n)

\* TrieNode.forwardOnNonMatch
ForwardOnNonMatch(trie, n) == n \in trie.fwd

\* the walk of Trie.insert: create the missing children along keySequence
RECURSIVE InsertWalk(_, _, _)
InsertWalk(nodes, cur, rest) ==
    IF rest = << >> THEN nodes
    ELSE LET child == Append(cur, Head(rest))
         IN  InsertWalk(nodes \cup {child}, child, Tail(rest))

\* Trie.insert that replaces the nodes on its way by new nodes
TrieInsertFresh(trie, keySequence, rep) ==
    [nodes  |-> InsertWalk(trie.nodes, RootNode, keySequence),
     term   |-> {n \in trie.term :
                    ~(Len(n) < Len(keySequence) /\ n # RootNode
                      /\ n = SubSeq(keySequence, 1, Len(n)))}
                \cup {keySequence},
     action |-> trie.action,
     repeat |-> IF rep.given THEN trie.repeat \cup {keySequence} ELSE trie.repeat,
     every  |-> trie.every,
     fwd    |-> trie.fwd]

\* metadata.repeat.interval of a node whose repeat option is an object, else 0
CustomInterval(trie, n) ==
    IF \E e \in trie.every : e.node = n
    THEN (CHOOSE e \in trie.every : e.node = n).interval
    ELSE 0

\* Trie.insert(keySequence, [action,] options): rep is options.repeat, which
\* replaces metadata.repeat of the terminal node when it is given
TrieInsert(trie, keySequence, rep) ==
    [nodes  |-> InsertWalk(trie.nodes, RootNode, keySequence),
     term   |-> trie.term \cup {keySequence},
     action |-> trie.action,
     repeat |-> IF rep.given THEN trie.repeat \cup {keySequence} ELSE trie.repeat,
     every  |-> IF rep.given
                THEN {e \in trie.every : e.node # keySequence}
                     \cup (IF rep.interval # 0
                           THEN {[node |-> keySequence, interval |-> rep.interval]}
                           ELSE {})
                ELSE trie.every,
     fwd    |-> trie.fwd]

\* Trie.insert(keySequence, action, options) of design A: the terminal
\* marker is the stored action
TrieInsertAction(trie, keySequence, action, rep) ==
    [TrieInsert(trie, keySequence, rep) EXCEPT
        !.action = {e \in trie.action : e.node # keySequence}
                   \cup {[node |-> keySequence, value |-> action]}]

\* null where a node is expected
NullNode == <<Null>>

\* a walk that creates the missing child, as the walk of insert does
RECURSIVE FindWalkCreate(_, _, _)
FindWalkCreate(trie, cur, rest) ==
    IF rest = << >> THEN [trie |-> trie, node |-> cur]
    ELSE LET child == Append(cur, Head(rest))
         IN  FindWalkCreate([trie EXCEPT !.nodes = @ \cup {child}], child, Tail(rest))

\* the walk of Trie.find: follow the children along keySequence, stop at the
\* first missing one
RECURSIVE FindWalk(_, _, _)
FindWalk(trie, cur, rest) ==
    IF rest = << >> THEN [trie |-> trie, node |-> cur]
    ELSE IF ~HasChild(trie, cur, Head(rest)) THEN [trie |-> trie, node |-> NullNode]
    ELSE FindWalk(trie, GetChild(trie, cur, Head(rest)), Tail(rest))

\* Trie.find(keySequence): the node found (or null), and the trie after the
\* call
TrieFind(trie, keySequence) == FindWalk(trie, RootNode, keySequence)

----------------------------------------------------------------------------
(* Hook *)

\* A registration is the listenerEntry object that register creates; it is
\* identified by its position among the entries ever made on the hook.
\*   fn       the listener function
\*   does     what a call of the listener does
\*   onError  the onError option: "none" (the default no-op), "ok", "throws"

\* new Hook(): an empty #listeners array. entries are the listenerEntry
\* objects that the unregister closures hold, live the registrations that
\* neither their closure nor clear() has removed
NewHook == [listeners |-> << >>, entries |-> << >>, live |-> {}]

\* Array.prototype.indexOf on entry objects: the first position, 0 for -1
IndexOf(listeners, id) ==
    IF \E i \in 1..Len(listeners) : listeners[i].id = id
    THEN CHOOSE i \in 1..Len(listeners) :
            /\ listeners[i].id = id
            /\ \A j \in 1..(i - 1) : listeners[j].id # id
    ELSE 0

\* Array.prototype.splice(index, 1)
Splice(listeners, i) ==
    SubSeq(listeners, 1, i - 1) \o SubSeq(listeners, i + 1, Len(listeners))

\* register(listener, options): push a new entry
HookRegister(h, fn, does, onError) ==
    LET entry == [id |-> Len(h.entries) + 1, fn |-> fn, does |-> does,
                  onError |-> onError]
    IN  [listeners |-> Append(h.listeners, entry),
         entries   |-> Append(h.entries, entry),
         live      |-> h.live \cup {entry.id}]

\* an unregister closure that looks its listener function up
HookUnregisterByFn(h, id) ==
    LET fn == h.entries[id].fn
        i  == IF \E x \in 1..Len(h.listeners) : h.listeners[x].fn = fn
              THEN CHOOSE x \in 1..Len(h.listeners) :
                      /\ h.listeners[x].fn = fn
                      /\ \A j \in 1..(x - 1) : h.listeners[j].fn # fn
              ELSE 0
    IN  IF i > 0
        THEN [h EXCEPT !.listeners = Splice(@, i), !.live = @ \ {id}]
        ELSE [h EXCEPT !.live = @ \ {id}]

\* the unregister closure of the registration id
HookUnregister(h, id) ==
    LET i == IndexOf(h.listeners, id)
    IN  IF i > 0
        THEN [h EXCEPT !.listeners = Splice(@, i), !.live = @ \ {id}]
        ELSE [h EXCEPT !.live = @ \ {id}]

\* clear(): #listeners becomes a new empty array
HookClear(h) == [h EXCEPT !.listeners = << >>, !.live = {}]

\* get count
HookCount(h) == Len(h.listeners)

\* the value a listener returns when it does not throw
ListenerReturn(entry) == entry.fn

\* what a trigger call has done so far: the results array, the entries
\* called, and the onError handlers called with the entry whose error they got
NoOutput == [results |-> << >>, calls |-> << >>, errors |-> << >>]

\* the array a for-of loop walks: the #listeners array as long as the hook
\* still holds it (same), otherwise the items it had when clear() replaced it
LoopItems(h, arr) == IF arr.same THEN h.listeners ELSE arr.items

\* the hook after the body of a listener ran
ListenerBody(h, entry) ==
    IF entry.does = "unregSelf" THEN HookUnregister(h, entry.id)
    ELSE IF entry.does = "unregFirst" THEN HookUnregister(h, 1)
    ELSE IF entry.does = "register" THEN HookRegister(h, "g", "return", "none")
    ELSE IF entry.does = "clear" THEN HookClear(h)
    ELSE h

\* one pass of the loop body that pushes no result for a listener that threw
InvokeListenerSkipResult(h, arr, entry, out) ==
    [h   |-> ListenerBody(h, entry),
     arr |-> IF entry.does = "clear" /\ arr.same
             THEN [same |-> FALSE, items |-> h.listeners] ELSE arr,
     out |-> IF entry.does = "throw"
             THEN [out EXCEPT !.calls = Append(@, entry.id),
                              !.errors = Append(@, [handler |-> entry.id,
                                                    error |-> entry.id])]
             ELSE [out EXCEPT !.calls = Append(@, entry.id),
                              !.results = Append(@, ListenerReturn(entry))]]

\* one pass of the loop body of trigger: call the listener; if it throws,
\* call the entry's onError (whose own error is dropped) and push undefined
InvokeListener(h, arr, entry, out) ==
    [h   |-> ListenerBody(h, entry),
     arr |-> IF entry.does = "clear" /\ arr.same
             THEN [same |-> FALSE, items |-> h.listeners] ELSE arr,
     out |-> IF entry.does = "throw"
             THEN [out EXCEPT !.calls = Append(@, entry.id),
                              !.errors = Append(@, [handler |-> entry.id,
                                                    error |-> entry.id]),
                              !.results = Append(@, "undefined")]
             ELSE [out EXCEPT !.calls = Append(@, entry.id),
                              !.results = Append(@, ListenerReturn(entry))]]

\* for (const entry of this.#listeners): the array iterator reads the length
\* and the element at its index anew at every step
RECURSIVE TriggerLoop(_, _, _, _)
TriggerLoop(h, arr, idx, out) ==
    IF idx > Len(LoopItems(h, arr)) THEN [h |-> h, out |-> out]
    ELSE LET r == InvokeListener(h, arr, LoopItems(h, arr)[idx], out)
         IN  TriggerLoop(r.h, r.arr, idx + 1, r.out)

\* trigger(...args)
HookTrigger(h) == TriggerLoop(h, [same |-> TRUE, items |-> << >>], 1, NoOutput)

----------------------------------------------------------------------------
(* Key parser. A JavaScript string is the sequence of its characters. *)

UpperCase == <<"A", "B", "C", "D", "E", "F", "G", "H", "I", "J", "K", "L",
               "M", "N", "O", "P", "Q", "R", "S", "T", "U", "V", "W", "X",
               "Y", "Z">>
LowerCase == <<"a", "b", "c", "d", "e", "f", "g", "h", "i", "j", "k", "l",
               "m", "n", "o", "p", "q", "r", "s", "t", "u", "v", "w", "x",
               "y", "z">>
Digits == {"0", "1", "2", "3", "4", "5", "6", "7", "8", "9"}

IsUpper(c) == \E i \in 1..Len(UpperCase) : UpperCase[i] = c
IsLower(c) == \E i \in 1..Len(LowerCase) : LowerCase[i] = c

\* String.prototype.toLowerCase / toUpperCase on one character
ToLowerChar(c) ==
    IF IsUpper(c) THEN LowerCase[CHOOSE i \in 1..Len(UpperCase) : UpperCase[i] = c]
    ELSE c
ToUpperChar(c) ==
    IF IsLower(c) THEN UpperCase[CHOOSE i \in 1..Len(LowerCase) : LowerCase[i] = c]
    ELSE c

ToLower(str) == [i \in 1..Len(str) |-> ToLowerChar(str[i])]
ToUpper(str) == [i \in 1..Len(str) |-> ToUpperChar(str[i])]

\* String.prototype.startsWith / endsWith
StartsWith(str, p) == Len(str) >= Len(p) /\ SubSeq(str, 1, Len(p)) = p
EndsWith(str, p) ==
    Len(str) >= Len(p) /\ SubSeq(str, Len(str) - Len(p) + 1, Len(str)) = p

\* /^f\d+$/ and /^F\d+$/ : the letter followed by one or more digits
IsFunctionKey(str, f) ==
    /\ Len(str) >= 2
    /\ str[1] = f
    /\ \A i \in 2..Len(str) : str[i] \in Digits

NoModifiers == [ctrl |-> FALSE, alt |-> FALSE, shift |-> FALSE,
                meta |-> FALSE, super |-> FALSE]

\* MODIFIER_PATTERNS after the two registerModifier calls of the module:
\* sorted by length, longest first
ModifierPatterns ==
    << [pattern |-> <<"h", "y", "p", "e", "r", "-">>, property |-> {"super", "shift", "alt", "ctrl"}],
       [pattern |-> <<"m", "e", "t", "a", "-">>, property |-> {"meta"}],
       [pattern |-> <<"m", "e", "h", "-">>, property |-> {"ctrl", "alt", "shift"}],
       [pattern |-> <<"c", "-">>, property |-> {"ctrl"}],
       [pattern |-> <<"m", "-">>, property |-> {"alt"}],
       [pattern |-> <<"a", "-">>, property |-> {"alt"}],
       [pattern |-> <<"s", "-">>, property |-> {"shift"}],
       [pattern |-> <<"d", "-">>, property |-> {"super"}],
       [pattern |-> <<"t", "-">>, property |-> {"meta"}] >>

\* modifiers[p] = true for every property p of a pattern
SetModifiers(modifiers, props) ==
    [m \in DOMAIN modifiers |-> IF m \in props THEN TRUE ELSE modifiers[m]]

\* the while (foundModifier) loop of parseKey: strip the first pattern that
\* remaining starts with, and start over
RECURSIVE StripModifiers(_, _)
StripModifiers(remaining, modifiers) ==
    IF \E i \in 1..Len(ModifierPatterns) :
          StartsWith(remaining, ModifierPatterns[i].pattern)
    THEN LET i == CHOOSE x \in 1..Len(ModifierPatterns) :
                     /\ StartsWith(remaining, ModifierPatterns[x].pattern)
                     /\ \A y \in 1..(x - 1) :
                           ~StartsWith(remaining, ModifierPatterns[y].pattern)
             p == ModifierPatterns[i]
         IN  StripModifiers(SubSeq(remaining, Len(p.pattern) + 1, Len(remaining)),
                            SetModifiers(modifiers, p.property))
    ELSE [remaining |-> remaining, modifiers |-> modifiers]

\* rows of parseKey's specialKeys table (the other rows have the same form)
SpecialKeys ==
    { <<<<"<", "e", "s", "c", ">">>, <<"E", "s", "c", "a", "p", "e">>>>,
      <<<<"e", "s", "c">>, <<"E", "s", "c", "a", "p", "e">>>>,
      <<<<"<", "e", "n", "t", "e", "r", ">">>, <<"E", "n", "t", "e", "r">>>>,
      <<<<"<", "c", "r", ">">>, <<"E", "n", "t", "e", "r">>>>,
      <<<<"e", "n", "t", "e", "r">>, <<"E", "n", "t", "e", "r">>>>,
      <<<<"c", "r">>, <<"E", "n", "t", "e", "r">>>>,
      <<<<"<", "t", "a", "b", ">">>, <<"T", "a", "b">>>>,
      <<<<"t", "a", "b">>, <<"T", "a", "b">>>>,
      <<<<"<", "f", "1", ">">>, <<"F", "1">>>>,
      <<<<"f", "1">>, <<"F", "1">>>> }

InSpecialKeys(k) == \E row \in SpecialKeys : row[1] = k
SpecialKey(k) == (CHOOSE row \in SpecialKeys : row[1] = k)[2]

\* rows of keyToString's reverseSpecial table
ReverseSpecialKeys ==
    { <<<<"E", "s", "c", "a", "p", "e">>, <<"<", "E", "s", "c", ">">>>>,
      <<<<"E", "n", "t", "e", "r">>, <<"<", "E", "n", "t", "e", "r", ">">>>>,
      <<<<"T", "a", "b">>, <<"<", "T", "a", "b", ">">>>>,
      <<<<"F", "1">>, <<"<", "F", "1", ">">>>> }

\* reverseSpecial[keyObj.key] || keyObj.key
ReverseSpecialKey(k) ==
    IF \E row \in ReverseSpecialKeys : row[1] = k
    THEN (CHOOSE row \in ReverseSpecialKeys : row[1] = k)[2]
    ELSE k

\* keyToString(keyObj): the prefixes C- M- S- D- T- in this order, then the key
KeyToString(key, modifiers) ==
    (IF modifiers.ctrl THEN <<"C", "-">> ELSE << >>)
    \o (IF modifiers.alt THEN <<"M", "-">> ELSE << >>)
    \o (IF modifiers.shift THEN <<"S", "-">> ELSE << >>)
    \o (IF modifiers.super THEN <<"D", "-">> ELSE << >>)
    \o (IF modifiers.meta THEN <<"T", "-">> ELSE << >>)
    \o ReverseSpecialKey(key)

\* the internal key: function keys stay uppercase, the others are lowercased
InternalKey(key) == IF IsFunctionKey(key, "F") THEN key ELSE ToLower(key)

\* a parseKey that does not look at the case of a bare letter
NeverCapital(content, hadBrackets) == FALSE

\* originalKeyIsCapital = !hadBrackets && /^[A-Z]$/.test(content)
OriginalKeyIsCapital(content, hadBrackets) ==
    ~hadBrackets /\ Len(content) = 1 /\ IsUpper(content[1])

\* parseKey(keyString); no placeholder is registered
ParseKey(keyString) ==
    LET processedKeyString ==
            IF keyString = <<"?">> \/ keyString = <<"<", "?", ">">>
            THEN <<"<", "S", "-", "/", ">">> ELSE keyString
        hadBrackets == /\ StartsWith(processedKeyString, <<"<">>)
                       /\ EndsWith(processedKeyString, <<">">>)
        \* slice(1, -1)
        content == IF hadBrackets
                   THEN SubSeq(processedKeyString, 2, Len(processedKeyString) - 1)
                   ELSE processedKeyString
        capital == OriginalKeyIsCapital(content, hadBrackets)
        stripped == StripModifiers(ToLower(content), NoModifiers)
        modifiers == IF capital THEN [stripped.modifiers EXCEPT !.shift = TRUE]
                     ELSE stripped.modifiers
        remaining == stripped.remaining
        lookupKey == IF hadBrackets THEN <<"<">> \o remaining \o <<">">>
                     ELSE remaining
        key == IF InSpecialKeys(lookupKey) THEN SpecialKey(lookupKey)
               ELSE IF InSpecialKeys(remaining) THEN SpecialKey(remaining)
               ELSE IF IsFunctionKey(remaining, "f") THEN ToUpper(remaining)
               ELSE remaining
    IN  [key |-> InternalKey(key), modifiers |-> modifiers,
         string |-> KeyToString(key, modifiers)]

\* an eventToKey that reports metaKey as meta and never as super
EventToKeyMeta(event) ==
    LET m1 == [ctrl |-> event.ctrlKey, alt |-> event.altKey,
               shift |-> event.shiftKey, meta |-> event.metaKey, super |-> FALSE]
        key == IF event.key = <<"?">> /\ event.shiftKey THEN <<"/">> ELSE event.key
        isLetter == Len(key) = 1 /\ (IsUpper(key[1]) \/ IsLower(key[1]))
        normalizedKey == IF isLetter THEN ToLower(key) ELSE key
        modifiers == IF isLetter /\ IsUpper(key[1])
                     THEN [m1 EXCEPT !.shift = TRUE] ELSE m1
    IN  [key |-> ToLower(normalizedKey), modifiers |-> modifiers,
         string |-> KeyToString(normalizedKey, modifiers)]

\* eventToKey(event); event.key is not one of the macOS option-key symbols
EventToKey(event) ==
    LET m0 == [ctrl |-> event.ctrlKey, alt |-> event.altKey,
               shift |-> event.shiftKey, meta |-> event.metaKey, super |-> FALSE]
        m1 == IF event.metaKey THEN [m0 EXCEPT !.super = TRUE, !.meta = FALSE]
              ELSE m0
        key == IF event.key = <<"?">> /\ event.shiftKey THEN <<"/">> ELSE event.key
        isArrow == StartsWith(key, <<"A", "r", "r", "o", "w">>)
        isFn == IsFunctionKey(key, "F") \/ IsFunctionKey(key, "f")
        isLetter == Len(key) = 1 /\ (IsUpper(key[1]) \/ IsLower(key[1]))
        normalizedKey ==
            IF isArrow THEN SubSeq(key, 6, Len(key))
            ELSE IF isFn THEN ToUpper(key)
            ELSE IF isLetter THEN ToLower(key)
            ELSE key
        modifiers ==
            IF ~isArrow /\ ~isFn /\ isLetter /\ IsUpper(key[1])
            THEN [m1 EXCEPT !.shift = TRUE] ELSE m1
        internalKey ==
            IF IsFunctionKey(normalizedKey, "F") \/ IsFunctionKey(normalizedKey, "f")
            THEN normalizedKey ELSE ToLower(normalizedKey)
    IN  [key |-> internalKey, modifiers |-> modifiers,
         string |-> KeyToString(normalizedKey, modifiers)]

\* parseKey(keyString) with the PLACEHOLDERS table: a registered token is
\* replaced by its value and parsed again. seen holds the tokens of the
\* calls that are on the stack; a token met again never stops recursing,
\* which the engine ends by throwing RangeError (call stack exceeded)
RECURSIVE ParseKeyPlaceholders(_, _, _)
ParseKeyPlaceholders(table, keyString, seen) ==
    IF keyString \in DOMAIN table
    THEN IF keyString \in seen
         THEN [threw |-> TRUE, string |-> << >>]
         ELSE ParseKeyPlaceholders(table, table[keyString], seen \cup {keyString})
    ELSE [threw |-> FALSE, string |-> ParseKey(keyString).string]

\* setPlaceholder(name, value)
SetPlaceholder(table, name, value) ==
    [k \in (DOMAIN table) \cup {name} |-> IF k = name THEN value ELSE table[k]]

\* keysMatch(key1, key2)
KeysMatch(key1, key2) ==
    /\ key1.key = key2.key
    /\ key1.modifiers.ctrl = key2.modifiers.ctrl
    /\ key1.modifiers.alt = key2.modifiers.alt
    /\ key1.modifiers.shift = key2.modifiers.shift
    /\ key1.modifiers.meta = key2.modifiers.meta
    /\ key1.modifiers.super = key2.modifiers.super

\* current.split('')
SplitChars(current) == [i \in 1..Len(current) |-> <<current[i]>>]

\* the loop of parseKeySequence from index i on (i counts from 1)
RECURSIVE TokenLoop(_, _, _, _, _)
TokenLoop(str, i, current, inBracket, parts) ==
    IF i > Len(str) THEN parts
    ELSE LET char == str[i]
         IN  IF char = "<"
             THEN TokenLoop(str, i + 1, <<"<">>, TRUE,
                            IF current # << >> THEN parts \o SplitChars(current)
                            ELSE parts)
             ELSE IF char = ">"
             THEN TokenLoop(str, i + 1, << >>, FALSE,
                            Append(parts, Append(current, ">")))
             ELSE TokenLoop(str, i + 1, Append(current, char), inBracket,
                            IF ~inBracket /\ i = Len(str)
                            THEN parts \o SplitChars(Append(current, char))
                            ELSE parts)

\* the parts that parseKeySequence hands to parseKey
Tokenize(keySequenceString) == TokenLoop(keySequenceString, 1, << >>, FALSE, << >>)

\* parseKeySequence(keySequenceString)
ParseKeySequence(keySequenceString) ==
    LET parts == Tokenize(keySequenceString)
    IN  [i \in 1..Len(parts) |-> ParseKey(parts[i])]

----------------------------------------------------------------------------
(* Key notation *)

\* keyToString's reverseSpecial table, on the keys that are delivered
ReverseSpecial(k) == IF k = "Enter" THEN "<Enter>" ELSE k

\* eventToKey(event).string for an event without modifier flags
EventToKeyString(eventKey) == ReverseSpecial(eventKey)

\* parseKeySequence(notation).map(k => k.string) for the notations that are
\* bound: lowercase letters, one key-string per character
ParseKeyStrings(notation) == notation

----------------------------------------------------------------------------
(* The processor state as one record, and its methods as operators on it.  *)
(* ret, prevented, log, reached, adv are the outputs of a call:            *)
(*   ret        the value the method returns                               *)
(*   prevented  event.preventDefault() / stopPropagation() were called     *)
(*   log        processor-level notifications, in order                    *)
(*   hooks      per-node completion hooks triggered, in order              *)
(*   reached    processKeyCore ran on key;  adv  it found a child          *)

State == [variant |-> variant, tries |-> tries, modes |-> modes,
          currentMode |-> currentMode, currentRoot |-> currentRoot,
          currentNode |-> currentNode, matchedPath |-> matchedPath,
          timeoutId |-> timeoutId, timeoutType |-> timeoutType,
          pending |-> pending, isActive |-> isActive, heldKeys |-> heldKeys,
          onKeyCount |-> onKeyCount, timers |-> timers, intervals |-> intervals,
          ret |-> FALSE, prevented |-> FALSE, log |-> << >>, hooks |-> << >>,
          reached |-> FALSE, adv |-> FALSE, key |-> Null, down |-> down]

CurTrie(s) == s.tries[s.currentRoot]

\* smallest positive integer not in used
FreshId(used) == CHOOSE i \in 1..(Cardinality(used) + 1) : i \notin used

\* array.filter(Boolean) on a list of node keys
FilterKeys(ks) == SelectSeq(ks, LAMBDA k : k # Null)

\* [...matchedPath.map(n => n.key).filter(Boolean), currentNode?.key].filter(Boolean)
GetMatchedSequence(s) ==
    FilterKeys([i \in 1..Len(s.matchedPath) |-> NodeKey(s.matchedPath[i])]
               \o <<NodeKey(s.currentNode)>>)

Note(kind, action, keySequence) ==
    [kind |-> kind, action |-> action, keySequence |-> keySequence]

Emit(s, note) == [s EXCEPT !.log = Append(@, note)]

\* clearTimeout()
ClearTimeout(s) ==
    IF s.timeoutId # 0
    THEN [s EXCEPT !.timers = {t \in @ : t.id # s.timeoutId},
                   !.timeoutId = 0, !.timeoutType = Null]
    ELSE [s EXCEPT !.timeoutType = Null]

\* resetToRoot that leaves matchedPath as it is
ResetToRootKeepPath(s) ==
    ClearTimeout([s EXCEPT !.currentNode = RootNode,
                           !.pending = IF s.variant = "A" THEN NoPending ELSE @])

\* resetToRoot(); onSequenceReset has no listener that acts on the processor
ResetToRoot(s) ==
    ClearTimeout([s EXCEPT !.currentNode = RootNode,
                           !.matchedPath = << >>,
                           !.pending = IF s.variant = "A" THEN NoPending ELSE @])

\* setTimer without its leading clearTimeout()
SetTimerKeepOld(s, type) ==
    LET id == FreshId({t.id : t \in s.timers})
    IN  [s EXCEPT !.timeoutType = type, !.timeoutId = id,
                  !.timers = @ \cup {[id |-> id, type |-> type]}]

\* the scheduling half of setTimer(type): the callback is TimerCallback
SetTimer(s, type) ==
    LET c  == ClearTimeout(s)
        id == FreshId({t.id : t \in c.timers})
    IN  [c EXCEPT !.timeoutType = type, !.timeoutId = id,
                  !.timers = @ \cup {[id |-> id, type |-> type]}]

\* executeActionInternal handing the callback the path without the last key
ExecuteActionDropLast(s, callback) ==
    Emit(s, Note("callback", callback,
                 FilterKeys([i \in 1..Len(s.matchedPath) |->
                                IF i = 1 THEN Null ELSE NodeKey(s.matchedPath[i])])))

\* executeActionInternal(callback) of design A: the key sequence is rebuilt
\* from matchedPath[1..] and currentNode at the time of the call
ExecuteActionInternal(s, callback) ==
    LET ks == [i \in 1..Len(s.matchedPath) |->
                  IF i = 1 THEN Null ELSE NodeKey(s.matchedPath[i])]
    IN  Emit(s, Note("callback", callback,
                     FilterKeys(ks \o <<NodeKey(s.currentNode)>>)))

\* callCompletionHooks(): the completion hook of every node of matchedPath,
\* then of the root. Design A triggers a node hook only when it has
\* listeners, and no listener is registered on a node hook.
CallCompletionHooks(s) ==
    IF s.variant = "B"
    THEN [s EXCEPT !.hooks = @ \o s.matchedPath \o <<RootNode>>]
    ELSE s

\* the dispatch of a pending ambiguous match on a key (force-execute key, or
\* a key with no child): executeActionInternal (A), onSequenceComplete (B)
DispatchPending(s) ==
    IF s.variant = "A"
    THEN ExecuteActionInternal(s, s.pending)
    ELSE Emit(s, Note("onSequenceComplete", NoPending, s.pending))

\* onActionExecuted.trigger(ctx)
ActionExecuted(s) == Emit(s, Note("onActionExecuted", NoPending, GetMatchedSequence(s)))

----------------------------------------------------------------------------
(* Key repeat *)

\* stopRepeating that forgets the key without clearInterval
StopRepeatingKeepInterval(s, k) ==
    IF k \in DOMAIN s.heldKeys
    THEN LET held == s.heldKeys[k]
             s2   == IF s.variant = "B"
                     THEN Emit(s, Note("onRepeatEnd", NoPending, held.info))
                     ELSE s
         IN  [s2 EXCEPT !.heldKeys = [x \in (DOMAIN s.heldKeys) \ {k} |-> s.heldKeys[x]]]
    ELSE s

\* stopRepeating(keyString)
StopRepeating(s, k) ==
    IF k \in DOMAIN s.heldKeys
    THEN LET held == s.heldKeys[k]
             s1   == [s EXCEPT !.intervals = {i \in @ : i.id # held.intervalId}]
             s2   == IF s.variant = "B"
                     THEN Emit(s1, Note("onRepeatEnd", NoPending, held.info))
                     ELSE s1
         IN  [s2 EXCEPT !.heldKeys = [x \in (DOMAIN s.heldKeys) \ {k} |-> s.heldKeys[x]]]
    ELSE s

\* startRepeating without its leading stopRepeating(keyString)
StartRepeatingStack(s, k, info, customInterval) ==
    LET s2 == IF s.variant = "A"
              THEN ExecuteActionInternal(s, info)
              ELSE Emit(s, Note("onRepeatStart", NoPending, info))
        interval == IF customInterval # 0 THEN customInterval ELSE RepeatInterval
        id == FreshId({i.id : i \in s2.intervals})
    IN  [s2 EXCEPT !.intervals = @ \cup {[id |-> id, info |-> info, every |-> interval]},
                   !.heldKeys = (k :> [intervalId |-> id, info |-> info]) @@ @]

\* startRepeating(keyString, action | sequenceInfo): info is the action (A)
\* or the key sequence of sequenceInfo (B) that the interval callback keeps
StartRepeating(s, k, info, customInterval) ==
    LET s1 == StopRepeating(s, k)
        s2 == IF s.variant = "A"
              THEN ExecuteActionInternal(s1, info)
              ELSE Emit(s1, Note("onRepeatStart", NoPending, info))
        interval == IF customInterval # 0 THEN customInterval ELSE RepeatInterval
        id == FreshId({i.id : i \in s2.intervals})
    IN  [s2 EXCEPT !.intervals = @ \cup {[id |-> id, info |-> info, every |-> interval]},
                   !.heldKeys = (k :> [intervalId |-> id, info |-> info]) @@ @]

\* the setInterval callback of startRepeating
IntervalCallback(s, i) ==
    IF s.variant = "A"
    THEN ExecuteActionInternal(s, i.info)
    ELSE Emit(s, Note("onRepeat", NoPending, i.info))

\* stopAllRepeating(): the heldKeys entries are visited in insertion order;
\* the order only shows in the order of the onRepeatEnd notifications, which
\* are emitted here as one notification per key in a fixed order
RECURSIVE StopAllFrom(_, _)
StopAllFrom(s, ks) ==
    IF ks = {} THEN s
    ELSE LET k == CHOOSE x \in ks : TRUE
         IN  StopAllFrom(StopRepeating(s, k), ks \ {k})

StopAllRepeating(s) == StopAllFrom(s, DOMAIN s.heldKeys)

----------------------------------------------------------------------------
(* Key handling *)

\* processKeyCore, child found and ambiguous: remember the terminal value,
\* start the AMBIGUOUS timer, do not dispatch
CoreAmbiguous(s1, child) ==
    LET s2 == [s1 EXCEPT !.pending =
                  IF s1.variant = "A" THEN NodeAction(CurTrie(s1), child)
                  ELSE GetMatchedSequence(s1)]
    IN  [SetTimer(s2, "AMBIGUOUS") EXCEPT !.ret = FALSE]

\* processKeyCore, child found and terminal: dispatch (or start repeating),
\* completion hooks, onActionExecuted, reset
CoreComplete(s1, child, k) ==
    LET trie == CurTrie(s1)
        s2 == IF child \in trie.repeat
              THEN StartRepeating(s1, k,
                      IF s1.variant = "A" THEN NodeAction(trie, child)
                      ELSE GetMatchedSequence(s1),
                      CustomInterval(trie, child))
              ELSE IF s1.variant = "A"
              THEN ExecuteActionInternal(s1, NodeAction(trie, child))
              ELSE Emit(s1, Note("onSequenceComplete", NoPending, GetMatchedSequence(s1)))
        s3 == Emit(CallCompletionHooks(s2),
                   Note("onActionExecuted", NoPending, GetMatchedSequence(s1)))
    IN  [ResetToRoot(s3) EXCEPT !.ret = FALSE]

\* processKeyCore, child found: advance, then one of the three cases
CoreChildFound(s0, k) ==
    LET trie  == CurTrie(s0)
        child == GetChild(trie, s0.currentNode, k)
        s1 == [s0 EXCEPT !.pending = IF s0.variant = "A" THEN NoPending ELSE @,
                         !.currentNode = child,
                         !.matchedPath = Append(@, s0.currentNode),
                         !.adv = TRUE]
    IN  IF IsAmbiguous(trie, child) THEN CoreAmbiguous(s1, child)
        ELSE IF CanComplete(trie, child) THEN CoreComplete(s1, child, k)
        ELSE [SetTimer(s1, "SEQUENCE") EXCEPT !.ret = FALSE]

\* the ambiguous fallthrough reporting its key consumed
CoreFallthroughConsume(s0) ==
    [ResetToRoot(ActionExecuted(CallCompletionHooks(DispatchPending(s0))))
        EXCEPT !.ret = FALSE]

\* processKeyCore, no child while ambiguous: dispatch the pending match,
\* reset, report the key as not consumed
CoreFallthrough(s0) ==
    [ResetToRoot(ActionExecuted(CallCompletionHooks(DispatchPending(s0))))
        EXCEPT !.ret = TRUE]

\* a hard failure that forwards whatever the failing node says
CoreHardFailureForward(s0) == [ResetToRoot(s0) EXCEPT !.ret = TRUE]

\* processKeyCore, no child otherwise: failure hooks (no listeners), reset,
\* forward as the failing node says
CoreHardFailure(s0) ==
    [ResetToRoot(s0) EXCEPT !.ret = ForwardOnNonMatch(CurTrie(s0), s0.currentNode)]

\* processKeyCore(key, event); ret is shouldForward
ProcessKeyCore(s, k) ==
    LET trie == CurTrie(s)
        s0   == [s EXCEPT !.reached = TRUE, !.key = k]
    IN  IF HasChild(trie, s.currentNode, k) THEN CoreChildFound(s0, k)
        ELSE IF IsAmbiguous(trie, s.currentNode) /\ s.pending # NoPending
        THEN CoreFallthrough(s0)
        ELSE CoreHardFailure(s0)

\* the listener code of one onKey trigger: a listener may call
\* ctx.resetTimeout(type) (restart # "none") before the results are read
OnKeyTrigger(s, restart) ==
    IF restart = "none" THEN s ELSE SetTimer(s, restart)

\* the first result of the onKey listeners that is a boolean, else "undefined"
RECURSIVE FirstStance(_)
FirstStance(results) ==
    IF results = << >> THEN "undefined"
    ELSE IF Head(results) \in {"true", "false"} THEN Head(results)
    ELSE FirstStance(Tail(results))

\* force execute that leaves the ambiguity timer and the walk as they are
ForceExecuteNoReset(s0) ==
    [ActionExecuted(CallCompletionHooks(DispatchPending(s0))) EXCEPT !.ret = FALSE]

\* processKeyInternal, force execute on an ambiguous node
ForceExecute(s0) ==
    [ResetToRoot(ActionExecuted(CallCompletionHooks(DispatchPending(s0))))
        EXCEPT !.ret = FALSE]

\* processKeyInternal(key, event); ret is shouldForward
ProcessKeyInternal(s, k, results, restart) ==
    LET s0 == OnKeyTrigger(s, restart)
        stance == FirstStance(results)
    IN  IF stance = "true" THEN [s0 EXCEPT !.ret = FALSE]
        ELSE IF stance = "false" THEN [s0 EXCEPT !.ret = TRUE]
        ELSE IF /\ IsAmbiguous(CurTrie(s0), s0.currentNode)
                /\ s0.pending # NoPending
                /\ k \in ForceExecuteKeys
        THEN ForceExecute(s0)
        ELSE ProcessKeyCore(s0, k)

\* processKeyEvent without the test of isActive
ProcessKeyEventAlways(s, eventKey, results, restart) ==
    IF eventKey \in ModifierKeys THEN [s EXCEPT !.ret = FALSE]
    ELSE LET r == ProcessKeyInternal(s, EventToKeyString(eventKey), results, restart)
         IN  IF r.ret
             THEN [ClearTimeout(r) EXCEPT !.ret = FALSE]
             ELSE [r EXCEPT !.prevented = TRUE, !.ret = TRUE]

\* processKeyEvent(event)
ProcessKeyEvent(s, eventKey, results, restart) ==
    IF ~s.isActive THEN [s EXCEPT !.ret = FALSE]
    ELSE IF eventKey \in ModifierKeys THEN [s EXCEPT !.ret = FALSE]
    ELSE LET r == ProcessKeyInternal(s, EventToKeyString(eventKey), results, restart)
         IN  IF r.ret
             THEN [ClearTimeout(r) EXCEPT !.ret = FALSE]
             ELSE [r EXCEPT !.prevented = TRUE, !.ret = TRUE]

\* processKeyParsed(key)
ProcessKeyParsed(s, k, results, restart) ==
    IF s.onKeyCount > 0
    THEN [OnKeyTrigger(s, restart) EXCEPT
             !.ret = \E i \in 1..Len(results) : results[i] = "true"]
    ELSE LET r == ProcessKeyCore(s, k)
         IN  [r EXCEPT !.ret = ~r.ret]

\* a timer callback that dispatches the marker whatever the timer's type
TimerCallbackAnyType(s, type) ==
    IF s.pending # NoPending
    THEN IF s.variant = "A"
         THEN ResetToRoot(CallCompletionHooks(ExecuteActionInternal(s, s.pending)))
         ELSE ResetToRoot(CallCompletionHooks(
                  Emit(s, Note("onAmbiguousTimeout", NoPending, s.pending))))
    ELSE ResetToRoot(s)

\* the setTimeout callback of setTimer(type)
TimerCallback(s, type) ==
    IF type = "AMBIGUOUS" /\ s.pending # NoPending
    THEN IF s.variant = "A"
         THEN ResetToRoot(CallCompletionHooks(ExecuteActionInternal(s, s.pending)))
         ELSE ResetToRoot(CallCompletionHooks(
                  Emit(s, Note("onAmbiguousTimeout", NoPending, s.pending))))
    ELSE ResetToRoot(s)

\* handleKeyUp(event)
HandleKeyUp(s, eventKey) ==
    IF ~s.isActive THEN s
    ELSE IF eventKey \in ModifierKeys THEN s
    ELSE StopRepeating(s, EventToKeyString(eventKey))

----------------------------------------------------------------------------
(* Modes and bindings *)

\* new Trie() on the heap
NewTrieId(s) ==
    CHOOSE i \in TrieIds :
        /\ i \notin {s.modes[m] : m \in DOMAIN s.modes} \cup {s.currentRoot}
        /\ \A j \in TrieIds :
              j \notin {s.modes[m] : m \in DOMAIN s.modes} \cup {s.currentRoot} => i <= j

\* modes.set(name, new Trie())
ModesSetNew(s, m) ==
    LET id == NewTrieId(s)
    IN  [s EXCEPT !.tries = (id :> EmptyTrie) @@ @,
                  !.modes = (m :> id) @@ @]

\* initMode without the modes.has(modeName) test
InitModeAlways(s, m) == ModesSetNew(s, m)

\* initMode(modeName)
InitMode(s, m) == IF m \notin DOMAIN s.modes THEN ModesSetNew(s, m) ELSE s

\* setMode without its leading stopAllRepeating()
SetModeKeepRepeats(s, m) ==
    LET s2 == IF m \notin DOMAIN s.modes THEN InitMode(s, m) ELSE s
    IN  ResetToRoot([s2 EXCEPT !.currentMode = m, !.currentRoot = s2.modes[m]])

\* setMode(modeName)
SetMode(s, m) ==
    LET s1 == StopAllRepeating(s)
        s2 == IF m \notin DOMAIN s1.modes THEN InitMode(s1, m) ELSE s1
    IN  ResetToRoot([s2 EXCEPT !.currentMode = m, !.currentRoot = s2.modes[m]])

\* set(sequence[, callback]): options are not passed on to insert; the
\* callback of a binding is named after its key sequence
SetBinding(s, notation) ==
    LET keyStrings == ParseKeyStrings(notation)
    IN  [s EXCEPT !.tries[s.currentRoot] =
            IF s.variant = "A"
            THEN TrieInsertAction(@, keyStrings, keyStrings, NoOption)
            ELSE TrieInsert(@, keyStrings, NoOption)]

\* set(sequence, callback, options) called with an options argument: set
\* declares no such parameter and gives insert no options
SetBindingOptions(s, notation, options) == SetBinding(s, notation)

\* currentRoot.insert(keyStrings[, callback], {repeat: rep})
InsertRepeat(s, keyStrings, rep) ==
    [s EXCEPT !.tries[s.currentRoot] =
        IF s.variant = "A"
        THEN TrieInsertAction(@, keyStrings, keyStrings, rep)
        ELSE TrieInsert(@, keyStrings, rep)]

\* clear() without the assignment to currentRoot
ClearKeepRoot(s) == ResetToRoot(ModesSetNew(s, s.currentMode))

\* clear()
Clear(s) ==
    LET s1 == ModesSetNew(s, s.currentMode)
    IN  ResetToRoot([s1 EXCEPT !.currentRoot = s1.modes[s1.currentMode]])

\* clearAll()
ClearAll(s) ==
    LET s1 == [s EXCEPT !.modes = [m \in {} |-> 0]]
    IN  SetMode(InitMode(s1, DefaultMode), DefaultMode)

\* reset()
Reset(s) == SetMode(ResetToRoot(StopAllRepeating(s)), DefaultMode)

----------------------------------------------------------------------------
(* Observations *)

DispatchKinds == {"callback", "onSequenceComplete", "onAmbiguousTimeout",
                  "onRepeatStart", "onRepeat"}

\* the dispatch notifications of a log
Dispatches(log) == SelectSeq(log, LAMBDA n : n.kind \in DispatchKinds)

ListenerResults == {"true", "false", "undefined"}
Restarts == {"none", "SEQUENCE", "AMBIGUOUS"}

NoAttempt == [ok |-> FALSE, keys |-> << >>, disp |-> << >>, consumed |-> FALSE]

\* what an operation leaves in lastCall: its name and argument, the walk
\* position, marker, timer type and held keys it started from, and its
\* outputs
Call(op, arg, results, restart, r) ==
    [op |-> op, arg |-> arg, results |-> results, restart |-> restart,
     node |-> currentNode, pend |-> pending, ttype |-> timeoutType,
     held |-> DOMAIN heldKeys,
     ret |-> r.ret, prevented |-> r.prevented, log |-> r.log, hooks |-> r.hooks,
     reached |-> r.reached, adv |-> r.adv]

\* trie objects that are still referenced
Live(r) == {r.modes[m] : m \in DOMAIN r.modes} \cup {r.currentRoot}

\* object ids carry no meaning: the live tries are renumbered 1..n in the
\* order of their ids, so that equal heaps are equal states
Rank(r, id) == Cardinality({j \in Live(r) : j <= id})
Unrank(r, n) == CHOOSE id \in Live(r) : Rank(r, id) = n

\* the processor fields after a call that left the record r
Commit(r) ==
    /\ variant' = r.variant
    /\ tries' = [n \in 1..Cardinality(Live(r)) |-> r.tries[Unrank(r, n)]]
    /\ modes' = [m \in DOMAIN r.modes |-> Rank(r, r.modes[m])]
    /\ currentMode' = r.currentMode
    /\ currentRoot' = Rank(r, r.currentRoot)
    /\ currentNode' = r.currentNode
    /\ matchedPath' = r.matchedPath
    /\ timeoutId' = r.timeoutId
    /\ timeoutType' = r.timeoutType
    /\ pending' = r.pending
    /\ isActive' = r.isActive
    /\ heldKeys' = r.heldKeys
    /\ onKeyCount' = r.onKeyCount
    /\ timers' = r.timers
    /\ intervals' = r.intervals
    /\ walked' = IF r.currentNode = RootNode THEN << >>
                 ELSE IF r.adv THEN Append(walked, r.key)
                 ELSE walked
    /\ hook' = hook
    /\ down' = r.down
    /\ placeholders' = placeholders

\* the keys delivered to trie matching since the walk last started from the
\* root, with the dispatches and results of those calls; any other operation
\* in between ends the observation
AttemptAfterKey(r, k, consumed) ==
    LET base == IF currentNode = RootNode
                THEN [ok |-> TRUE, keys |-> << >>, disp |-> << >>, consumed |-> TRUE]
                ELSE attempt
    IN  IF r.reached /\ base.ok
        THEN [ok |-> TRUE, keys |-> Append(base.keys, k),
              disp |-> base.disp \o Dispatches(r.log),
              consumed |-> base.consumed /\ consumed]
        ELSE NoAttempt

\* total number of terminal nodes over all tries
RECURSIVE SumTerm(_, _)
SumTerm(ts, ids) ==
    IF ids = {} THEN 0
    ELSE LET i == CHOOSE x \in ids : TRUE
         IN  Cardinality(ts[i].term) + SumTerm(ts, ids \ {i})

CanBind(keyStrings) ==
    \/ keyStrings \in tries[currentRoot].term
    \/ SumTerm(tries, DOMAIN tries) < MaxBindings

----------------------------------------------------------------------------
(* Initial state: new KeyProcessor() *)

Init ==
    /\ variant \in {"A", "B"}
    /\ tries = (1 :> EmptyTrie)
    /\ modes = (DefaultMode :> 1)
    /\ currentMode = DefaultMode
    /\ currentRoot = 1
    /\ currentNode = RootNode
    /\ matchedPath = << >>
    /\ timeoutId = 0
    /\ timeoutType = Null
    /\ pending = NoPending
    /\ isActive = TRUE
    /\ heldKeys = [k \in {} |-> 0]
    /\ onKeyCount = 0
    /\ timers = {}
    /\ intervals = {}
    /\ lastCall = [op |-> "new", arg |-> Null, results |-> << >>, restart |-> "none",
                   node |-> RootNode, pend |-> NoPending, ttype |-> Null,
                   ret |-> FALSE, prevented |-> FALSE, log |-> << >>, hooks |-> << >>,
                   reached |-> FALSE, adv |-> FALSE]
    /\ attempt = NoAttempt
    /\ walked = << >>
    /\ hook = NewHook
    /\ down = {}
    /\ placeholders = << >>

----------------------------------------------------------------------------
(* Operations *)

\* keydown delivered through processKeyEvent; the onKey listeners return
\* results and leave the timer alone
KeyEvent ==
    \E e \in EventKeys, results \in [1..onKeyCount -> ListenerResults] :
        LET r == ProcessKeyEvent(State, e, results, "none")
        IN  /\ Commit(r)
            /\ lastCall' = Call("processKeyEvent", e, results, "none", r)
            /\ attempt' = AttemptAfterKey(r, EventToKeyString(e), r.ret)

\* a parsed key delivered through processKeyParsed
KeyParsed ==
    \E k \in KeyStrings, results \in [1..onKeyCount -> ListenerResults] :
        LET r == ProcessKeyParsed(State, k, results, "none")
        IN  /\ Commit(r)
            /\ lastCall' = Call("processKeyParsed", k, results, "none", r)
            /\ attempt' = AttemptAfterKey(r, k, r.ret)

\* keydown through processKeyEvent with an onKey listener that calls
\* ctx.resetTimeout(type)
KeyEventRestart ==
    \E e \in EventKeys \ ModifierKeys, results \in [1..onKeyCount -> ListenerResults],
       restart \in Restarts \ {"none"} :
        /\ onKeyCount > 0
        /\ isActive
        /\ LET r == ProcessKeyEvent(State, e, results, restart)
           IN  /\ Commit(r)
               /\ lastCall' = Call("processKeyEvent", e, results, restart, r)
               /\ attempt' = NoAttempt

\* a parsed key through processKeyParsed with an onKey listener that calls
\* ctx.resetTimeout(type)
KeyParsedRestart ==
    \E k \in KeyStrings, results \in [1..onKeyCount -> ListenerResults],
       restart \in Restarts \ {"none"} :
        /\ onKeyCount > 0
        /\ LET r == ProcessKeyParsed(State, k, results, restart)
           IN  /\ Commit(r)
               /\ lastCall' = Call("processKeyParsed", k, results, restart, r)
               /\ attempt' = NoAttempt

\* keydown of any key, a modifier key too, through processKeyEvent, with
\* onKey listeners that take no stance and may call ctx.resetTimeout(type)
KeyDown ==
    \E e \in EventKeys \cup PressedModifiers, restart \in Restarts :
        /\ restart # "none" => onKeyCount > 0
        /\ LET results == [i \in 1..onKeyCount |-> "undefined"]
               r == ProcessKeyEvent(State, e, results, restart)
           IN  /\ Commit(r)
               /\ lastCall' = Call("processKeyEvent", e, results, restart, r)
               /\ attempt' = NoAttempt

\* a pending timeout expires and its callback runs
TimerFires ==
    \E t \in timers :
        LET r == TimerCallback([State EXCEPT !.timers = @ \ {t}], t.type)
        IN  /\ Commit(r)
            /\ lastCall' = Call("timer", t.type, << >>, "none", r)
            /\ attempt' = NoAttempt

\* a running repeat interval ticks
IntervalTick ==
    \E i \in intervals :
        LET r == IntervalCallback(State, i)
        IN  /\ Commit(r)
            /\ lastCall' = Call("interval", i, << >>, "none", r)
            /\ attempt' = NoAttempt

\* keyup delivered through handleKeyUp
KeyUp ==
    \E e \in EventKeys \cup {"Shift"} :
        LET r == HandleKeyUp(State, e)
        IN  /\ Commit(r)
            /\ lastCall' = Call("handleKeyUp", e, << >>, "none", r)
            /\ attempt' = NoAttempt

\* set(notation[, callback])
Set ==
    \E n \in Bindable :
        /\ CanBind(ParseKeyStrings(n))
        /\ LET r == SetBinding(State, n)
           IN  /\ Commit(r)
               /\ lastCall' = Call("set", Null, << >>, "none", r)
               /\ attempt' = NoAttempt

\* set(notation, callback, {repeat: true | {interval}})
SetOptionsCall ==
    \E n \in RepeatBindable, rep \in RepeatOptions :
        /\ CanBind(ParseKeyStrings(n))
        /\ LET r == SetBindingOptions(State, n, rep)
           IN  /\ Commit(r)
               /\ lastCall' = Call("set(options)", [keys |-> n, repeat |-> rep],
                                   << >>, "none", r)
               /\ attempt' = NoAttempt

\* currentRoot.insert(keys[, callback], {repeat: true | {interval}})
Insert ==
    \E n \in RepeatBindable, rep \in RepeatOptions :
        /\ CanBind(n)
        /\ LET r == InsertRepeat(State, n, rep)
           IN  /\ Commit(r)
               /\ lastCall' = Call("insert", Null, << >>, "none", r)
               /\ attempt' = NoAttempt

\* currentRoot.insert(keySequence[, action], options) with any action, and
\* with or without a repeat option
TrieInsertCall ==
    \E ks \in TrieSeqs, f \in Callbacks, rep \in {NoOption, RepeatEvery} :
        /\ ks \in tries[currentRoot].term
           \/ Cardinality(tries[currentRoot].term) < MaxBindings
        /\ LET r == [State EXCEPT !.tries[currentRoot] =
                        IF variant = "A" THEN TrieInsertAction(@, ks, f, rep)
                        ELSE TrieInsert(@, ks, rep)]
           IN  /\ Commit(r)
               /\ lastCall' = Call("trie.insert",
                                   [keys |-> ks, action |-> f, repeat |-> rep],
                                   << >>, "none", r)
               /\ attempt' = NoAttempt

\* currentRoot.find(keySequence)
TrieFindCall ==
    \E ks \in TrieSeqs :
        LET found == TrieFind(tries[currentRoot], ks)
            r == [State EXCEPT !.tries[currentRoot] = found.trie]
        IN  /\ Commit(r)
            /\ lastCall' = [Call("trie.find", ks, << >>, "none", r)
                               EXCEPT !.ret = found.node]
            /\ attempt' = NoAttempt

SetModeCall ==
    \E m \in ModeNames :
        LET r == SetMode(State, m)
        IN  /\ Commit(r)
            /\ lastCall' = Call("setMode", m, << >>, "none", r)
            /\ attempt' = NoAttempt

InitModeCall ==
    \E m \in ModeNames :
        LET r == InitMode(State, m)
        IN  /\ Commit(r)
            /\ lastCall' = Call("initMode", m, << >>, "none", r)
            /\ attempt' = NoAttempt

ClearCall ==
    LET r == Clear(State)
    IN  /\ Commit(r)
        /\ lastCall' = Call("clear", Null, << >>, "none", r)
        /\ attempt' = NoAttempt

ClearAllCall ==
    LET r == ClearAll(State)
    IN  /\ Commit(r)
        /\ lastCall' = Call("clearAll", Null, << >>, "none", r)
        /\ attempt' = NoAttempt

ResetCall ==
    LET r == Reset(State)
    IN  /\ Commit(r)
        /\ lastCall' = Call("reset", Null, << >>, "none", r)
        /\ attempt' = NoAttempt

ResetToRootCall ==
    LET r == ResetToRoot(State)
    IN  /\ Commit(r)
        /\ lastCall' = Call("resetToRoot", Null, << >>, "none", r)
        /\ attempt' = NoAttempt

\* onKey.register(listener) / the unregister closure
RegisterOnKey ==
    /\ onKeyCount < MaxListeners
    /\ Commit([State EXCEPT !.onKeyCount = @ + 1])
    /\ lastCall' = Call("register", Null, << >>, "none", State)
    /\ attempt' = NoAttempt

UnregisterOnKey ==
    /\ onKeyCount > 0
    /\ Commit([State EXCEPT !.onKeyCount = @ - 1])
    /\ lastCall' = Call("unregister", Null, << >>, "none", State)
    /\ attempt' = NoAttempt

\* processor.isActive = !processor.isActive
ToggleActive ==
    /\ Commit([State EXCEPT !.isActive = ~@])
    /\ lastCall' = Call("isActive", Null, << >>, "none", State)
    /\ attempt' = NoAttempt

----------------------------------------------------------------------------
(* Keyboard events with modifier flags *)

\* the physical keys that are pressed and released
PhysicalKeys == {"Control", "a"}

\* the key sequences given a repeat option: the key alone and the chord
ChordBindings == {<<"a">>, <<"C-a">>}

\* the KeyboardEvent.key values and key-strings in use, with their characters
KeyTexts == { <<"a", <<"a">>>>, <<"C-a", <<"C", "-", "a">>>> }
Chars(str) == (CHOOSE row \in KeyTexts : row[1] = str)[2]
Text(chars) == (CHOOSE row \in KeyTexts : row[2] = chars)[1]

\* the KeyboardEvent of key k that the platform builds while the keys in
\* held are down: ctrlKey is set while Control is down
KeyboardEvent(k, held) == [key |-> k, ctrlKey |-> "Control" \in held]

\* eventToKey(event).string
EventString(event) ==
    Text(EventToKey([key |-> Chars(event.key), ctrlKey |-> event.ctrlKey,
                     altKey |-> FALSE, shiftKey |-> FALSE,
                     metaKey |-> FALSE]).string)

\* processKeyEvent(event) on an event with modifier flags; no onKey
\* listener is registered
ProcessKeyDown(s, event) ==
    IF ~s.isActive THEN [s EXCEPT !.ret = FALSE]
    ELSE IF event.key \in ModifierKeys THEN [s EXCEPT !.ret = FALSE]
    ELSE LET r == ProcessKeyInternal(s, EventString(event), << >>, "none")
         IN  IF r.ret
             THEN [ClearTimeout(r) EXCEPT !.ret = FALSE]
             ELSE [r EXCEPT !.prevented = TRUE, !.ret = TRUE]

\* handleKeyUp(event) on an event with modifier flags
ReleaseKeyUp(s, event) ==
    IF ~s.isActive THEN s
    ELSE IF event.key \in ModifierKeys THEN s
    ELSE StopRepeating(s, EventString(event))

\* a physical key goes down: its keydown event carries the flags of the
\* modifiers that are down, itself included
PressKey ==
    \E k \in PhysicalKeys \ down :
        LET held == down \cup {k}
            r == ProcessKeyDown([State EXCEPT !.down = held], KeyboardEvent(k, held))
        IN  /\ Commit(r)
            /\ lastCall' = Call("processKeyEvent", k, << >>, "none", r)
            /\ attempt' = NoAttempt

\* a physical key goes up: its keyup event carries the flags of the
\* modifiers that are still down
ReleaseKey ==
    \E k \in down :
        LET held == down \ {k}
            r == ReleaseKeyUp([State EXCEPT !.down = held], KeyboardEvent(k, held))
        IN  /\ Commit(r)
            /\ lastCall' = Call("handleKeyUp", k, << >>, "none", r)
            /\ attempt' = NoAttempt

\* currentRoot.insert(keys[, callback], {repeat}) of the key or the chord
BindChord ==
    \E n \in ChordBindings, rep \in RepeatOptions :
        /\ CanBind(n)
        /\ LET r == InsertRepeat(State, n, rep)
           IN  /\ Commit(r)
               /\ lastCall' = Call("insert", Null, << >>, "none", r)
               /\ attempt' = NoAttempt

\* the processor is not touched by a call on the hook
ProcessorUnchanged ==
    UNCHANGED <<variant, tries, modes, currentMode, currentRoot, currentNode,
                matchedPath, timeoutId, timeoutType, pending, isActive,
                heldKeys, onKeyCount, timers, intervals, attempt, walked,
                down, placeholders>>

\* what a call on the hook leaves in lastCall: its name and argument, the
\* hook it started from, and what it returned and called
HookCallOf(op, arg, out) ==
    [op |-> op, arg |-> arg, before |-> hook, results |-> out.results,
     calls |-> out.calls, errors |-> out.errors]

\* listeners that return, or throw with each kind of onError option
PassiveListeners ==
    {[fn |-> "f", does |-> "return", onError |-> "none"],
     [fn |-> "g", does |-> "return", onError |-> "none"],
     [fn |-> "f", does |-> "throw", onError |-> "none"],
     [fn |-> "f", does |-> "throw", onError |-> "ok"],
     [fn |-> "g", does |-> "throw", onError |-> "throws"]}

\* what a listener does when it is called: return, or first call the hook
\* it is registered on
ReentrantKinds == {"return", "unregSelf", "unregFirst", "register", "clear"}

\* hook.register(listener, options) with a listener that leaves the hook alone
HookRegisterCall ==
    \E l \in PassiveListeners :
        /\ Len(hook.entries) < MaxRegistrations
        /\ hook' = HookRegister(hook, l.fn, l.does, l.onError)
        /\ lastCall' = HookCallOf("hook.register", Len(hook.entries) + 1, NoOutput)
        /\ ProcessorUnchanged

\* hook.register(listener) with a listener that calls the hook
HookRegisterReentrant ==
    \E does \in ReentrantKinds :
        /\ Len(hook.entries) < MaxRegistrations
        /\ hook' = HookRegister(hook, "f", does, "none")
        /\ lastCall' = HookCallOf("hook.register", Len(hook.entries) + 1, NoOutput)
        /\ ProcessorUnchanged

\* a call of the closure that register returned for the registration id
HookUnregisterCall ==
    \E id \in 1..Len(hook.entries) :
        /\ hook' = HookUnregister(hook, id)
        /\ lastCall' = HookCallOf("hook.unregister", id, NoOutput)
        /\ ProcessorUnchanged

\* hook.clear()
HookClearCall ==
    /\ hook' = HookClear(hook)
    /\ lastCall' = HookCallOf("hook.clear", 0, NoOutput)
    /\ ProcessorUnchanged

\* hook.trigger(...args)
HookTriggerCall ==
    LET r == HookTrigger(hook)
    IN  /\ Len(r.h.entries) <= MaxRegistrations
        /\ hook' = r.h
        /\ lastCall' = HookCallOf("hook.trigger", 0, r.out)
        /\ ProcessorUnchanged

\* what a call of a parser function leaves in lastCall
ParserCall(op, arg, ret) == [op |-> op, arg |-> arg, ret |-> ret]

\* the key notations given to parseKey: a bare letter in either case, and a
\* letter in brackets by itself, with S- and with C-
KeyNotations ==
    {<<UpperCase[i]>> : i \in 1..Len(UpperCase)}
    \cup {<<LowerCase[i]>> : i \in 1..Len(LowerCase)}
    \cup {<<"<", LowerCase[i], ">">> : i \in 1..Len(LowerCase)}
    \cup {<<"<", "S", "-", LowerCase[i], ">">> : i \in 1..Len(LowerCase)}
    \cup {<<"<", "C", "-", LowerCase[i], ">">> : i \in 1..Len(LowerCase)}

\* keydown events of a letter key in either case, with and without shiftKey
LetterEvents ==
    [key : {<<UpperCase[i]>> : i \in 1..Len(UpperCase)}
           \cup {<<LowerCase[i]>> : i \in 1..Len(LowerCase)},
     shiftKey : BOOLEAN, ctrlKey : {FALSE}, altKey : {FALSE}, metaKey : {FALSE}]

\* the characters of the notation strings given to parseKeySequence
NotationChars == {"a", "<", ">"}

\* the strings over NotationChars of length 0..n
RECURSIVE StringsUpTo(_)
StringsUpTo(n) ==
    IF n = 0 THEN {<< >>}
    ELSE LET shorter == StringsUpTo(n - 1)
         IN  shorter \cup {Append(s, c) : s \in shorter, c \in NotationChars}

\* parseKey(keyString)
ParseKeyCall ==
    \E k \in KeyNotations :
        /\ lastCall' = ParserCall("parseKey", k, ParseKey(k))
        /\ ProcessorUnchanged
        /\ hook' = hook

\* eventToKey(event)
EventToKeyCall ==
    \E e \in LetterEvents :
        /\ lastCall' = ParserCall("eventToKey", e, EventToKey(e))
        /\ ProcessorUnchanged
        /\ hook' = hook

\* parseKeySequence(keySequenceString); tokens are the parts it splits the
\* string into, ret the keys it returns
ParseKeySequenceCall ==
    \E str \in StringsUpTo(MaxNotationLen) :
        /\ lastCall' = [op |-> "parseKeySequence", arg |-> str,
                        tokens |-> Tokenize(str), ret |-> ParseKeySequence(str)]
        /\ ProcessorUnchanged
        /\ hook' = hook

\* the modifier flags of a keyboard event, by the property each one sets
ChordFlags == {"ctrl", "alt", "shift", "super"}

\* the prefixes of a chord's notation: every subset of the flags in every
\* order
ChordOrders ==
    {o \in UNION {[1..k -> ChordFlags] : k \in 0..Cardinality(ChordFlags)} :
        \A i, j \in DOMAIN o : o[i] = o[j] => i = j}

\* the notation prefix of a flag
ChordPrefix(flag) ==
    CASE flag = "ctrl" -> <<"C", "-">>
      [] flag = "alt" -> <<"M", "-">>
      [] flag = "shift" -> <<"S", "-">>
      [] flag = "super" -> <<"D", "-">>

RECURSIVE ChordPrefixes(_)
ChordPrefixes(order) ==
    IF order = << >> THEN << >>
    ELSE ChordPrefix(Head(order)) \o ChordPrefixes(Tail(order))

\* the bracketed notation of the letter x with the prefixes of order
ChordNotation(order, x) == <<"<">> \o ChordPrefixes(order) \o <<x>> \o <<">">>

\* the keyboard event of the letter x with the flags of order
ChordEvent(order, x) ==
    LET flags == {order[i] : i \in DOMAIN order}
    IN  [key |-> <<x>>, ctrlKey |-> "ctrl" \in flags, altKey |-> "alt" \in flags,
         shiftKey |-> "shift" \in flags, metaKey |-> "super" \in flags]

\* the letter of the next chord: the calls go through the alphabet, a
\* chord is followed by the chords of the next letter
ChordLetters ==
    IF lastCall.op = "chord"
    THEN LET i == CHOOSE j \in 1..Len(LowerCase) : LowerCase[j] = lastCall.arg.key
         IN  {(i % Len(LowerCase)) + 1}
    ELSE {1}

\* parseKey of a chord's notation and eventToKey of the chord's event
ChordCall ==
    \E order \in ChordOrders, i \in ChordLetters :
        LET x == LowerCase[i]
            parsed == ParseKey(ChordNotation(order, x))
            event == EventToKey(ChordEvent(order, x))
        IN  /\ lastCall' = [op |-> "chord", arg |-> [order |-> order, key |-> x],
                            parsed |-> parsed.string, event |-> event.string,
                            meta |-> event.modifiers.meta]
            /\ ProcessorUnchanged
            /\ hook' = hook

\* the tokens given to setPlaceholder and parseKey
PlaceholderTokens == {<<"x">>, <<"y">>, <<"a">>}

\* setPlaceholder(name, value)
SetPlaceholderCall ==
    \E name \in PlaceholderTokens, value \in PlaceholderTokens :
        /\ placeholders' = SetPlaceholder(placeholders, name, value)
        /\ lastCall' = [op |-> "setPlaceholder", arg |-> name, value |-> value]
        /\ UNCHANGED <<variant, tries, modes, currentMode, currentRoot,
                       currentNode, matchedPath, timeoutId, timeoutType,
                       pending, isActive, heldKeys, onKeyCount, timers,
                       intervals, attempt, walked, hook, down>>

\* parseKey(keyString) with the placeholders that are registered
ParsePlaceholderCall ==
    \E k \in PlaceholderTokens :
        LET r == ParseKeyPlaceholders(placeholders, k, {})
        IN  /\ lastCall' = [op |-> "parseKey(placeholders)", arg |-> k,
                            threw |-> r.threw, string |-> r.string]
            /\ ProcessorUnchanged
            /\ hook' = hook

\* every operation of the processor
NextAll ==
    \/ KeyEvent
    \/ KeyParsed
    \/ KeyEventRestart
    \/ KeyParsedRestart
    \/ TimerFires
    \/ IntervalTick
    \/ KeyUp
    \/ Set
    \/ Insert
    \/ SetModeCall
    \/ InitModeCall
    \/ ClearCall
    \/ ClearAllCall
    \/ ResetCall
    \/ ResetToRootCall
    \/ RegisterOnKey
    \/ UnregisterOnKey
    \/ ToggleActive

\* sequence matching: bindings of one mode, keys through both entry points,
\* the sequence / ambiguity timer, onKey listeners
Next ==
    \/ KeyEvent
    \/ KeyParsed
    \/ TimerFires
    \/ Set
    \/ ClearCall
    \/ ResetToRootCall
    \/ RegisterOnKey
    \/ UnregisterOnKey

Spec == Init /\ [][Next]_vars

\* key repeat: repeat bindings, keydown, interval ticks, keyup, the isActive
\* flag and reset()
NextRepeat ==
    \/ KeyEvent
    \/ IntervalTick
    \/ KeyUp
    \/ Insert
    \/ ResetCall
    \/ ToggleActive

SpecRepeat == Init /\ [][NextRepeat]_vars

\* modes: bindings, keydown, and the calls that create, switch and discard
\* modes
NextModes ==
    \/ KeyEvent
    \/ Set
    \/ SetModeCall
    \/ InitModeCall
    \/ ClearCall
    \/ ClearAllCall

SpecModes == Init /\ [][NextModes]_vars

\* the trie by itself: insert and find
NextTrie ==
    \/ TrieInsertCall
    \/ TrieFindCall

SpecTrie == Init /\ [][NextTrie]_vars

\* mode switches in every state of the walk and of the held keys
NextSwitch ==
    \/ KeyEvent
    \/ Insert
    \/ SetModeCall

SpecSwitch == Init /\ [][NextSwitch]_vars

\* a hook by itself, with listeners that leave it alone
NextHook ==
    \/ HookRegisterCall
    \/ HookUnregisterCall
    \/ HookClearCall
    \/ HookTriggerCall

SpecHook == Init /\ [][NextHook]_vars

\* a hook whose listeners register, unregister and clear while it triggers
NextHookReentrant ==
    \/ HookRegisterReentrant
    \/ HookUnregisterCall
    \/ HookClearCall
    \/ HookTriggerCall

SpecHookReentrant == Init /\ [][NextHookReentrant]_vars

\* sequence matching with timers that fire: a pending setTimeout callback
\* is eventually run
SpecLive == Init /\ [][Next]_vars /\ WF_vars(TimerFires)

\* the key parser by itself
NextParser ==
    \/ ParseKeyCall
    \/ EventToKeyCall
    \/ ParseKeySequenceCall

SpecParser == Init /\ [][NextParser]_vars

\* keydown of every kind of key on an active and on an inactive processor
NextIgnore ==
    \/ KeyDown
    \/ Set
    \/ RegisterOnKey
    \/ ToggleActive

SpecIgnore == Init /\ [][NextIgnore]_vars

\* physical keys pressed and released in any order over repeat bindings of
\* a key and of a chord, with the repeat intervals ticking
NextChord ==
    \/ PressKey
    \/ ReleaseKey
    \/ BindChord
    \/ IntervalTick

SpecChord == Init /\ [][NextChord]_vars

\* clear() of the current mode while repeat bindings are held
NextClear ==
    \/ KeyEvent
    \/ Insert
    \/ IntervalTick
    \/ ClearCall

SpecClear == Init /\ [][NextClear]_vars

\* bindings registered through set with a repeat option, then matched
NextSetOptions ==
    \/ SetOptionsCall
    \/ KeyEvent
    \/ TimerFires

SpecSetOptions == Init /\ [][NextSetOptions]_vars

\* placeholder tables built by setPlaceholder, and parseKey over them
NextPlaceholder ==
    \/ SetPlaceholderCall
    \/ ParsePlaceholderCall

SpecPlaceholder == Init /\ [][NextPlaceholder]_vars

\* chords of a letter and modifiers, as notation and as keyboard event
NextNotation ==
    \/ ChordCall

SpecNotation == Init /\ [][NextNotation]_vars

----------------------------------------------------------------------------
(* Vocabulary of the properties *)

\* the current mode's trie
Trie == tries[currentRoot]

AtRoot == currentNode = RootNode /\ matchedPath = << >>

NoTimer == timers = {} /\ timeoutId = 0 /\ timeoutType = Null

IsKeyCall == lastCall.op \in {"processKeyEvent", "processKeyParsed"}

\* the key-string of the last key-handling call
LastKey == IF lastCall.op = "processKeyEvent"
           THEN EventToKeyString(lastCall.arg) ELSE lastCall.arg

\* the last call reported its key consumed / forwarded
Consumed == lastCall.ret = TRUE
Forwarded == lastCall.ret = FALSE

\* the processor was ambiguous when the last call started: the code's test
\* currentNode.isAmbiguous() && pendingAmbiguous*
WasAmbiguous == IsAmbiguous(Trie, lastCall.node) /\ lastCall.pend # NoPending

\* the last call was a keydown that took the force-execute step
WasForceExecute ==
    /\ lastCall.op = "processKeyEvent"
    /\ isActive
    /\ FirstStance(lastCall.results) = "undefined"
    /\ WasAmbiguous
    /\ LastKey \in ForceExecuteKeys

\* the last call was a key that went on to trie matching (step 3): no onKey
\* listener took a stance and the force-execute step did not apply
ReachedMatching ==
    \/ /\ lastCall.op = "processKeyParsed"
       /\ Len(lastCall.results) = 0
    \/ /\ lastCall.op = "processKeyEvent"
       /\ isActive
       /\ FirstStance(lastCall.results) = "undefined"
       /\ ~WasForceExecute

\* the log holds exactly one dispatch, of the marker m (the callback of
\* design A, the key sequence of design B)
OneDispatchOf(log, m) ==
    /\ Len(Dispatches(log)) = 1
    /\ IF variant = "A" THEN Dispatches(log)[1].action = m
       ELSE Dispatches(log)[1].keySequence = m

Prefixes(s) == {SubSeq(s, 1, i) : i \in 0..Len(s)}
ProperPrefixes(s) == {SubSeq(s, 1, i) : i \in 0..(Len(s) - 1)}

----------------------------------------------------------------------------
(* C1 *)

\* C1: in every reachable state at most one sequence-resolution timer is
\* pending, and a pending timer is the one the processor tracks in
\* timeoutId / timeoutType: a timer scheduled earlier does not survive a
\* later setTimer, clearTimeout or resetToRoot.
TheoremC1 ==
    /\ Cardinality(timers) <= 1
    /\ \A t \in timers : t.id = timeoutId /\ t.type = timeoutType

\* a key advanced the walk from a node that had a timer running to a node
\* that has one: setTimer replaced a pending timer
WitnessC1 ==
    /\ IsKeyCall /\ lastCall.adv
    /\ lastCall.ttype # Null
    /\ Cardinality(timers) = 1

----------------------------------------------------------------------------
(* C2 *)

\* s is bound and isolated in the current trie: no other binding is a proper
\* prefix or a proper extension of it
Isolated(s) ==
    /\ s \in Trie.term
    /\ ~HasChildren(Trie, s)
    /\ \A p \in ProperPrefixes(s) : p \notin Trie.term

\* what the dispatch of a binding hands over: the callback of the binding
\* (design A) or no callback (design B), and the key sequence
IsDispatchOf(note, s) ==
    /\ note.kind = IF variant = "A" THEN "callback" ELSE "onSequenceComplete"
    /\ note.action = IF variant = "A" THEN s ELSE NoPending
    /\ note.keySequence = s

\* C2: when the keys of an isolated binding s are fed from ROOT, each key
\* reaching trie matching, every key is consumed, nothing is dispatched
\* before the last key, the last key produces exactly one dispatch, for s
\* with the key sequence s, and the processor is then back at ROOT.
TheoremC2 ==
    \A s \in Trie.term :
        (/\ Isolated(s)
         /\ attempt.ok
         /\ attempt.keys # << >>
         /\ attempt.keys \in Prefixes(s))
        => /\ attempt.consumed
           /\ IF attempt.keys = s
              THEN /\ Len(attempt.disp) = 1
                   /\ IsDispatchOf(attempt.disp[1], s)
                   /\ AtRoot /\ NoTimer
              ELSE /\ attempt.disp = << >>
                   /\ currentNode = attempt.keys

\* the two keys of the isolated binding a b were fed and it was dispatched
WitnessC2 ==
    /\ Isolated(<<"a", "b">>)
    /\ attempt.ok
    /\ attempt.keys = <<"a", "b">>
    /\ Len(attempt.disp) = 1
    /\ AtRoot

----------------------------------------------------------------------------
(* C3 *)

\* the last call was a key that reached trie matching, found no child at the
\* node it started from, and the processor was not ambiguous
WasHardFailure ==
    /\ IsKeyCall
    /\ ReachedMatching
    /\ ~HasChild(Trie, lastCall.node, LastKey)
    /\ ~WasAmbiguous

\* C3: on a hard failure nothing is dispatched, the processor is reset to
\* ROOT with no timer, and the key is forwarded exactly when the node where
\* matching failed has forwardOnNonMatch; with the default settings a
\* failure at the root forwards the key and a failure at a nested node
\* swallows it.
TheoremC3 ==
    WasHardFailure =>
        /\ Dispatches(lastCall.log) = << >>
        /\ AtRoot /\ NoTimer
        /\ Forwarded <=> ForwardOnNonMatch(Trie, lastCall.node)
        /\ lastCall.node = RootNode => Forwarded
        /\ lastCall.node # RootNode => Consumed
        /\ lastCall.op = "processKeyEvent" => (lastCall.prevented <=> Consumed)

\* processKeyParsed failed to match at a nested node and returned true
WitnessC3 ==
    /\ WasHardFailure
    /\ lastCall.op = "processKeyParsed"
    /\ lastCall.node # RootNode
    /\ lastCall.ret = TRUE

----------------------------------------------------------------------------
(* C4 *)

\* the last step was the expiry of the ambiguity timer of an ambiguous
\* processor
AmbiguityTimerExpired ==
    /\ lastCall.op = "timer"
    /\ lastCall.arg = "AMBIGUOUS"
    /\ WasAmbiguous

\* C4: once the keys of a binding s that a longer binding extends have
\* arrived, the processor is AMBIGUOUS at s and nothing has been dispatched;
\* when the ambiguity timer then expires, s is dispatched exactly once and
\* the processor is at ROOT with matchedPath empty, no pending-ambiguous
\* marker and no timer.
CounterexampleC4 ==
    /\ (/\ attempt.ok
        /\ attempt.keys \in Trie.term
        /\ HasChildren(Trie, attempt.keys))
       => /\ attempt.disp = << >>
          /\ currentNode = attempt.keys
          /\ timeoutType = "AMBIGUOUS"
          /\ pending = attempt.keys
    /\ AmbiguityTimerExpired
       => /\ OneDispatchOf(lastCall.log, lastCall.node)
          /\ AtRoot /\ NoTimer
          /\ pending = NoPending

----------------------------------------------------------------------------
(* C5 *)

\* C5: a keydown of a force-execute key handled by processKeyEvent while the
\* processor is ambiguous dispatches the pending match exactly once, resets
\* to ROOT, reports the key consumed (preventDefault called, true returned)
\* and leaves no ambiguity timer that could dispatch the match again.
TheoremC5 ==
    WasForceExecute =>
        /\ OneDispatchOf(lastCall.log, lastCall.pend)
        /\ AtRoot
        /\ lastCall.ret = TRUE /\ lastCall.prevented
        /\ NoTimer

\* Enter was pressed while the binding a was pending at the ambiguous node a
WitnessC5 ==
    /\ WasForceExecute
    /\ lastCall.arg = "Enter"
    /\ lastCall.node = <<"a">>
    /\ lastCall.ttype = "AMBIGUOUS"
    /\ Len(Dispatches(lastCall.log)) = 1

----------------------------------------------------------------------------
(* C6 *)

\* C6: when the key k arrives while the processor is ambiguous at the
\* binding s and s+k is in the trie, the pending marker of s is cleared
\* and s is not dispatched in this attempt.
CounterexampleC6 ==
    (/\ attempt.ok
     /\ Len(attempt.keys) >= 2
     /\ SubSeq(attempt.keys, 1, Len(attempt.keys) - 1) \in Trie.term
     /\ attempt.keys \in Trie.nodes)
    => LET s == SubSeq(attempt.keys, 1, Len(attempt.keys) - 1)
       IN  /\ pending # s
           /\ \A i \in 1..Len(attempt.disp) :
                 /\ attempt.disp[i].keySequence # s
                 /\ attempt.disp[i].action # s

----------------------------------------------------------------------------
(* C7 *)

\* the last call was a key that reached trie matching while the processor
\* was ambiguous and that is neither a child of the node nor a
\* force-execute key
WasFallthrough ==
    /\ IsKeyCall
    /\ ReachedMatching
    /\ WasAmbiguous
    /\ ~HasChild(Trie, lastCall.node, LastKey)
    /\ LastKey \notin ForceExecuteKeys

\* C7: such a key dispatches the pending match exactly once, resets the
\* processor to ROOT and is reported not consumed; it is not matched
\* against the root in the same call, so nothing else is dispatched and
\* the walk does not advance.
TheoremC7 ==
    WasFallthrough =>
        /\ OneDispatchOf(lastCall.log, lastCall.pend)
        /\ AtRoot /\ NoTimer
        /\ Forwarded /\ ~lastCall.prevented
        /\ ~lastCall.adv

\* at the ambiguous node a, the key a is not a child of the node and is
\* bound at the root
WitnessC7 ==
    /\ WasFallthrough
    /\ lastCall.node = <<"a">>
    /\ LastKey = "a"
    /\ HasChild(Trie, RootNode, "a")
    /\ Len(Dispatches(lastCall.log)) = 1

----------------------------------------------------------------------------
(* C8 *)

\* the last step was the expiry of the SEQUENCE timer at a non-terminal
\* descendant of the root
SequenceTimerExpired ==
    /\ lastCall.op = "timer"
    /\ lastCall.arg = "SEQUENCE"
    /\ lastCall.node # RootNode
    /\ ~CanComplete(Trie, lastCall.node)

\* C8: when the SEQUENCE timer expires while a non-terminal prefix has been
\* typed, nothing is dispatched and the processor is reset to ROOT with
\* matchedPath empty.
TheoremC8 ==
    SequenceTimerExpired =>
        /\ Dispatches(lastCall.log) = << >>
        /\ AtRoot /\ NoTimer

\* the SEQUENCE timer expired at the non-terminal prefix a b
WitnessC8 ==
    /\ SequenceTimerExpired
    /\ lastCall.node = <<"a", "b">>
    /\ AtRoot

----------------------------------------------------------------------------
(* C9 *)

\* the state is one that a key-handling call or a timer expiry left
AfterKeyHandling == IsKeyCall \/ lastCall.op = "timer"

\* C9: between two key-handling calls the timer corresponds to the position
\* of the walk: at the root no timer is pending; at a non-completable
\* descendant a SEQUENCE timer is pending; at an ambiguous node an AMBIGUOUS
\* timer is pending and the pending-ambiguous marker is set; the processor
\* is never at a non-root node with no timer pending.
CounterexampleC9 ==
    AfterKeyHandling =>
        /\ currentNode = RootNode => timers = {}
        /\ (currentNode # RootNode /\ ~CanComplete(Trie, currentNode))
           => \E t \in timers : t.type = "SEQUENCE"
        /\ IsAmbiguous(Trie, currentNode)
           => /\ \E t \in timers : t.type = "AMBIGUOUS"
              /\ pending # NoPending
        /\ currentNode # RootNode => timers # {}

----------------------------------------------------------------------------
(* C10 *)

\* C10: after every operation matchedPath followed by currentNode is the
\* path from the root of the current mode's trie to currentNode (its first
\* element is the root, each next element is the child of the one before,
\* currentNode is the child of the last), matchedPath is empty exactly when
\* currentNode is the root, and getMatchedSequence() is the list of the
\* keys that advanced the walk since the processor was last at ROOT.
TheoremC10 ==
    /\ currentNode \in Trie.nodes
    /\ Len(matchedPath) = Len(currentNode)
    /\ \A i \in 1..Len(matchedPath) :
          /\ matchedPath[i] \in Trie.nodes
          /\ matchedPath[i] = SubSeq(currentNode, 1, i - 1)
          /\ LET next == IF i < Len(matchedPath) THEN matchedPath[i + 1]
                         ELSE currentNode
             IN  next = GetChild(Trie, matchedPath[i], currentNode[i])
    /\ matchedPath = << >> <=> currentNode = RootNode
    /\ GetMatchedSequence(State) = walked

\* two keys advanced the walk from ROOT to the node a b
WitnessC10 ==
    /\ IsKeyCall /\ lastCall.adv
    /\ currentNode = <<"a", "b">>
    /\ matchedPath = <<RootNode, <<"a">> >>
    /\ walked = <<"a", "b">>

----------------------------------------------------------------------------
(* C11 *)

\* C11: in every state with currentNode at the root the pending-ambiguous
\* marker is null, in particular after resetToRoot; the marker is non-null
\* only while currentNode is an ambiguous node, and it is then the marker
\* of that node.
CounterexampleC11 ==
    /\ currentNode = RootNode => pending = NoPending
    /\ pending # NoPending
       => /\ IsAmbiguous(Trie, currentNode)
          /\ pending = currentNode

----------------------------------------------------------------------------
(* C12 *)

\* the step is a key-handling call in which the first boolean result of the
\* onKey listeners, in registration order, is stance
VetoStep(stance) ==
    /\ lastCall'.op \in {"processKeyEvent", "processKeyParsed"}
    /\ lastCall'.op = "processKeyEvent" => isActive
    /\ FirstStance(lastCall'.results) = stance

\* C12: a key on which the first boolean result of the onKey listeners is
\* true is reported consumed, skips trie matching, dispatches nothing and
\* leaves currentNode, matchedPath and the pending timer unchanged; a key
\* on which it is false is reported forwarded, dispatches nothing, leaves
\* currentNode and matchedPath unchanged and leaves no timer pending.
CounterexampleC12 ==
    [][/\ VetoStep("true")
          => /\ lastCall'.ret = TRUE
             /\ ~lastCall'.reached
             /\ Dispatches(lastCall'.log) = << >>
             /\ currentNode' = currentNode /\ matchedPath' = matchedPath
             /\ timers' = timers /\ timeoutId' = timeoutId
             /\ timeoutType' = timeoutType
       /\ VetoStep("false")
          => /\ lastCall'.ret = FALSE
             /\ ~lastCall'.reached
             /\ Dispatches(lastCall'.log) = << >>
             /\ currentNode' = currentNode /\ matchedPath' = matchedPath
             /\ timers' = {} /\ timeoutId' = 0]_vars

----------------------------------------------------------------------------
(* C13 *)

\* the step is a key-handling call with listeners registered, none of which
\* returned a boolean
PassiveStep ==
    /\ lastCall'.op \in {"processKeyEvent", "processKeyParsed"}
    /\ lastCall'.op = "processKeyEvent" => isActive
    /\ Len(lastCall'.results) > 0
    /\ FirstStance(lastCall'.results) = "undefined"

\* what the same call does on a processor without listeners
WithoutListeners ==
    LET s == [State EXCEPT !.onKeyCount = 0]
    IN  IF lastCall'.op = "processKeyEvent"
        THEN ProcessKeyEvent(s, lastCall'.arg, << >>, "none")
        ELSE ProcessKeyParsed(s, lastCall'.arg, << >>, "none")

\* C13: when onKey listeners are registered and none returns true or false,
\* the key is handled as if no listener were registered (same result, same
\* dispatches, same walk position and timer), through processKeyEvent and
\* through processKeyParsed; a key bound at the current node is matched and
\* reported consumed.
CounterexampleC13 ==
    [][PassiveStep
       => /\ lastCall'.ret = WithoutListeners.ret
          /\ lastCall'.log = WithoutListeners.log
          /\ currentNode' = WithoutListeners.currentNode
          /\ matchedPath' = WithoutListeners.matchedPath
          /\ pending' = WithoutListeners.pending
          /\ timeoutType' = WithoutListeners.timeoutType
          /\ LET k == IF lastCall'.op = "processKeyEvent"
                      THEN EventToKeyString(lastCall'.arg) ELSE lastCall'.arg
             IN  HasChild(Trie, currentNode, k)
                 => /\ lastCall'.reached /\ lastCall'.adv
                    /\ lastCall'.ret = TRUE]_vars

----------------------------------------------------------------------------
(* C14 *)

\* the log holds exactly one dispatch, of the binding (callback of design A,
\* key sequence of design B) info
OneRepeatDispatchOf(log, info) ==
    /\ Len(Dispatches(log)) = 1
    /\ IF variant = "A" THEN Dispatches(log)[1].action = info
       ELSE Dispatches(log)[1].keySequence = info

\* the step is a keydown that completes the repeat binding at node n with
\* the key k
RepeatMatchStep(n, k) ==
    /\ lastCall'.op = "processKeyEvent"
    /\ lastCall'.adv
    /\ k = EventToKeyString(lastCall'.arg)
    /\ n = Append(currentNode, k)
    /\ n \in Trie.repeat
    /\ ~HasChildren(Trie, n)

\* the step is a keyup of the non-modifier key k on an active processor
KeyUpStep(k) ==
    /\ lastCall'.op = "handleKeyUp"
    /\ isActive
    /\ lastCall'.arg \notin ModifierKeys
    /\ k = EventToKeyString(lastCall'.arg)

\* C14: matching a repeat binding dispatches it once at once and starts one
\* interval for its key-string, with the binding's own period if it has one
\* and repeatInterval otherwise; every tick of an interval dispatches the
\* binding once and belongs to a key that is held; a keyup of the held key
\* removes the key from heldKeys and cancels its interval, so that no tick
\* for it can follow.
TheoremC14 ==
    [][/\ \A n \in Trie.nodes, k \in KeyStrings :
             RepeatMatchStep(n, k)
             => /\ OneRepeatDispatchOf(lastCall'.log, n)
                /\ k \in DOMAIN heldKeys'
                /\ heldKeys'[k].info = n
                /\ \E i \in intervals' :
                      /\ i.id = heldKeys'[k].intervalId
                      /\ i.info = n
                      /\ i.every = IF CustomInterval(Trie, n) # 0
                                   THEN CustomInterval(Trie, n)
                                   ELSE RepeatInterval
       /\ lastCall'.op = "interval"
          => /\ lastCall'.arg \in intervals
             /\ \E k \in DOMAIN heldKeys :
                   heldKeys[k].intervalId = lastCall'.arg.id
             /\ OneRepeatDispatchOf(lastCall'.log, lastCall'.arg.info)
             /\ heldKeys' = heldKeys /\ intervals' = intervals
       /\ \A k \in KeyStrings :
             KeyUpStep(k)
             => /\ k \notin DOMAIN heldKeys'
                /\ Dispatches(lastCall'.log) = << >>
                /\ k \in DOMAIN heldKeys
                   => \A i \in intervals' : i.id # heldKeys[k].intervalId
                /\ \A i \in intervals' :
                      \E h \in DOMAIN heldKeys' : heldKeys'[h].intervalId = i.id
      ]_vars

\* the key b was repeating, with the period of its binding, and its keyup
\* ended the repeat while the key a is still repeating
WitnessC14 ==
    /\ lastCall.op = "handleKeyUp"
    /\ lastCall.arg = "b"
    /\ "b" \in lastCall.held
    /\ DOMAIN heldKeys = {"a"}
    /\ Cardinality(intervals) = 1

----------------------------------------------------------------------------
(* C15 *)

\* C15: in every state the running repeat intervals are exactly the
\* intervals of the entries of heldKeys, one per held key-string: no
\* interval runs without its key being held, and no two intervals run for
\* one key-string, also after a repeat binding is matched while its
\* key-string is already held.
TheoremC15 ==
    /\ \A i \in intervals :
          \E k \in DOMAIN heldKeys :
              /\ heldKeys[k].intervalId = i.id
              /\ heldKeys[k].info = i.info
    /\ \A k \in DOMAIN heldKeys :
          \E i \in intervals : i.id = heldKeys[k].intervalId
    /\ \A i, j \in intervals : i.id = j.id => i = j
    /\ \A k, h \in DOMAIN heldKeys :
          heldKeys[k].intervalId = heldKeys[h].intervalId => k = h
    /\ Cardinality(intervals) = Cardinality(DOMAIN heldKeys)

\* a repeat binding was matched by a keydown of a key-string that was
\* already held, and one interval runs
WitnessC15 ==
    /\ lastCall.op = "processKeyEvent"
    /\ lastCall.adv
    /\ LastKey \in lastCall.held
    /\ DOMAIN heldKeys = {LastKey}
    /\ Cardinality(intervals) = 1

----------------------------------------------------------------------------
(* C16 *)

\* C16: setMode(m), in whatever state it is called, leaves heldKeys empty
\* and no repeat interval running, currentMode = m, currentRoot the trie of
\* m in modes (the trie m had, or an empty trie if m did not exist),
\* currentNode at the root, matchedPath empty and no timer pending.
TheoremC16 ==
    [][lastCall'.op = "setMode"
       => LET m == lastCall'.arg
          IN  /\ DOMAIN heldKeys' = {}
              /\ intervals' = {}
              /\ currentMode' = m
              /\ m \in DOMAIN modes'
              /\ currentRoot' = modes'[m]
              /\ tries'[currentRoot'] =
                    IF m \in DOMAIN modes THEN tries[modes[m]] ELSE EmptyTrie
              /\ currentNode' = RootNode
              /\ matchedPath' = << >>
              /\ timers' = {} /\ timeoutId' = 0 /\ timeoutType' = Null
      ]_vars

\* setMode("i") was called at an ambiguous node with the ambiguity timer
\* pending and a key held
WitnessC16 ==
    /\ lastCall.op = "setMode"
    /\ lastCall.arg = "i"
    /\ lastCall.held # {}
    /\ lastCall.node # RootNode
    /\ lastCall.ttype = "AMBIGUOUS"
    /\ currentMode = "i"

----------------------------------------------------------------------------
(* C17 *)

\* C17: initMode(name) for a mode that exists leaves modes and every trie as
\* they are (the trie of name is the same object with the same bindings, and
\* so is the trie of every other mode); for a mode that does not exist it
\* adds an empty trie and leaves the others as they are; in both cases
\* currentMode, currentRoot, currentNode, matchedPath and the timer are
\* unchanged.
TheoremC17 ==
    [][lastCall'.op = "initMode"
       => LET m == lastCall'.arg
          IN  /\ currentMode' = currentMode
              /\ currentNode' = currentNode
              /\ matchedPath' = matchedPath
              /\ tries'[currentRoot'] = tries[currentRoot]
              /\ timers' = timers /\ timeoutId' = timeoutId
              /\ \A x \in DOMAIN modes :
                    /\ x \in DOMAIN modes'
                    /\ tries'[modes'[x]] = tries[modes[x]]
              /\ IF m \in DOMAIN modes
                 THEN modes' = modes /\ tries' = tries /\ currentRoot' = currentRoot
                 ELSE /\ DOMAIN modes' = DOMAIN modes \cup {m}
                      /\ tries'[modes'[m]] = EmptyTrie
      ]_vars

\* initMode("i") was called in the middle of a sequence of mode n, when the
\* mode i had bindings
WitnessC17 ==
    /\ lastCall.op = "initMode"
    /\ lastCall.arg = "i"
    /\ currentMode = "n"
    /\ "i" \in DOMAIN modes
    /\ tries[modes["i"]].term # {}
    /\ currentNode # RootNode

----------------------------------------------------------------------------
(* C18 *)

\* C18: clear() replaces the trie of the current mode by an empty trie,
\* resets to ROOT and leaves currentMode, the set of modes and the trie of
\* every other mode unchanged; clearAll() leaves the default mode as the
\* only mode, with an empty trie, makes it current and resets to ROOT; and
\* in every state currentRoot is the trie stored under currentMode in modes.
TheoremC18 ==
    /\ [](currentMode \in DOMAIN modes /\ currentRoot = modes[currentMode])
    /\ [][/\ lastCall'.op = "clear"
             => /\ currentMode' = currentMode
                /\ DOMAIN modes' = DOMAIN modes
                /\ tries'[modes'[currentMode]] = EmptyTrie
                /\ \A x \in DOMAIN modes \ {currentMode} :
                      tries'[modes'[x]] = tries[modes[x]]
                /\ currentNode' = RootNode /\ matchedPath' = << >>
                /\ timers' = {} /\ timeoutId' = 0 /\ timeoutType' = Null
          /\ lastCall'.op = "clearAll"
             => /\ DOMAIN modes' = {DefaultMode}
                /\ currentMode' = DefaultMode
                /\ tries'[modes'[DefaultMode]] = EmptyTrie
                /\ currentNode' = RootNode /\ matchedPath' = << >>
                /\ timers' = {} /\ timeoutId' = 0 /\ timeoutType' = Null
         ]_vars

\* clear() was called in the middle of a sequence of mode i, and the
\* bindings of mode n are still there
WitnessC18 ==
    /\ lastCall.op = "clear"
    /\ lastCall.node # RootNode
    /\ currentMode = "i"
    /\ tries[modes["i"]] = EmptyTrie
    /\ tries[modes["n"]].term # {}
    /\ currentNode = RootNode

----------------------------------------------------------------------------
(* C19 *)

\* the repeat metadata of the node n of trie
RepeatMeta(trie, n) == <<n \in trie.repeat, CustomInterval(trie, n)>>

\* C19: an insert of s makes find(s) return the node of s, terminal and
\* carrying the inserted value (design A) and the given repeat option; it
\* leaves every other terminal node found by find, terminal, with its value
\* and its metadata, whether s is a prefix or an extension of it or
\* neither; and in every state find returns every terminal node.
TheoremC19 ==
    /\ [](\A s \in Trie.term : TrieFind(Trie, s).node = s)
    /\ [][lastCall'.op = "trie.insert"
          => LET a  == lastCall'.arg
                 T  == tries[currentRoot]
                 T2 == tries'[currentRoot']
             IN  /\ TrieFind(T2, a.keys).node = a.keys
                 /\ CanComplete(T2, a.keys)
                 /\ variant = "A" => NodeAction(T2, a.keys) = a.action
                 /\ a.repeat.given
                    => RepeatMeta(T2, a.keys) = <<TRUE, a.repeat.interval>>
                 /\ ~a.repeat.given
                    => RepeatMeta(T2, a.keys) = RepeatMeta(T, a.keys)
                 /\ \A s \in T.term \ {a.keys} :
                       /\ TrieFind(T2, s).node = s
                       /\ CanComplete(T2, s)
                       /\ NodeAction(T2, s) = NodeAction(T, s)
                       /\ RepeatMeta(T2, s) = RepeatMeta(T, s)
         ]_vars

\* the prefix a of the terminal a b was inserted again, with another value,
\* and both are terminal
WitnessC19 ==
    /\ lastCall.op = "trie.insert"
    /\ lastCall.arg.keys = <<"a">>
    /\ lastCall.arg.action = "g"
    /\ {<<"a">>, <<"a", "b">>, <<"b">>} \subseteq Trie.term
    /\ variant = "A" => NodeAction(Trie, <<"a", "b">>) = "f"

----------------------------------------------------------------------------
(* C20 *)

\* C20: find leaves the trie as it is (nodes, terminal markers, values and
\* metadata), for a sequence that is in the trie and for one that is not;
\* it returns the node of the sequence if the trie has it, the root for the
\* empty sequence, and null otherwise.
TheoremC20 ==
    [][lastCall'.op = "trie.find"
       => /\ tries' = tries
          /\ currentRoot' = currentRoot
          /\ lastCall'.ret = IF lastCall'.arg \in Trie.nodes
                             THEN lastCall'.arg ELSE NullNode
          /\ lastCall'.arg = << >> => lastCall'.ret = RootNode
      ]_vars

\* find returned null for a b at the second key, in a trie that has a
WitnessC20 ==
    /\ lastCall.op = "trie.find"
    /\ lastCall.arg = <<"a", "b">>
    /\ lastCall.ret = NullNode
    /\ <<"a">> \in Trie.nodes
    /\ <<"a", "b">> \notin Trie.nodes

----------------------------------------------------------------------------
(* C21 *)

\* the ids of a list of entries, in order
EntryIds(listeners) == [i \in 1..Len(listeners) |-> listeners[i].id]

\* the entries of a list that throw, as the onError calls they lead to
RECURSIVE ErrorsOf(_)
ErrorsOf(listeners) ==
    IF listeners = << >> THEN << >>
    ELSE (IF Head(listeners).does = "throw"
          THEN <<[handler |-> Head(listeners).id, error |-> Head(listeners).id]>>
          ELSE << >>) \o ErrorsOf(Tail(listeners))

\* C21: trigger calls the listeners in registration order and returns one
\* result per listener in that order; a listener that throws has its error
\* handed to its own onError, contributes undefined at its position and does
\* not keep the listeners after it from being called; trigger returns its
\* results also when onError itself throws.
TheoremC21 ==
    lastCall.op = "hook.trigger" =>
        LET ls == lastCall.before.listeners
        IN  /\ lastCall.calls = EntryIds(ls)
            /\ Len(lastCall.results) = Len(ls)
            /\ \A i \in 1..Len(ls) :
                  lastCall.results[i] = IF ls[i].does = "throw" THEN "undefined"
                                        ELSE ListenerReturn(ls[i])
            /\ lastCall.errors = ErrorsOf(ls)

\* a listener whose onError throws too, followed by a listener that returns
WitnessC21 ==
    /\ lastCall.op = "hook.trigger"
    /\ Len(lastCall.before.listeners) = 2
    /\ lastCall.before.listeners[1].does = "throw"
    /\ lastCall.before.listeners[1].onError = "throws"
    /\ lastCall.before.listeners[2].does = "return"
    /\ lastCall.results = <<"undefined", "f">>

----------------------------------------------------------------------------
(* C22 *)

\* a list of entries without the registration id
WithoutEntry(listeners, id) == SelectSeq(listeners, LAMBDA e : e.id # id)

\* the registrations not yet removed are the ones in #listeners, in the
\* order they were made, and count is their number
CountIsLive ==
    /\ {hook.listeners[i].id : i \in 1..Len(hook.listeners)} = hook.live
    /\ \A i, j \in 1..Len(hook.listeners) :
          i < j => hook.listeners[i].id < hook.listeners[j].id
    /\ HookCount(hook) = Cardinality(hook.live)

\* C22: a call of the closure that register returned removes exactly the
\* registration that produced it and leaves the other registrations, also
\* one of the same function, in place and in order; when that registration
\* is no longer there (the closure was called before, or clear() was called)
\* the call changes nothing; count is always the number of registrations not
\* yet removed.
TheoremC22 ==
    /\ []CountIsLive
    /\ [][lastCall'.op = "hook.unregister"
          => hook'.listeners = WithoutEntry(hook.listeners, lastCall'.arg)]_vars

\* the function f was registered twice and the closure of the second
\* registration was called: the first registration is still there
WitnessC22 ==
    /\ lastCall.op = "hook.unregister"
    /\ lastCall.arg = 2
    /\ Len(lastCall.before.listeners) >= 2
    /\ lastCall.before.listeners[1].fn = lastCall.before.listeners[2].fn
    /\ lastCall.before.listeners[1].id = 1
    /\ lastCall.before.listeners[2].id = 2
    /\ Len(hook.listeners) = Len(lastCall.before.listeners) - 1
    /\ hook.listeners[1].id = 1

----------------------------------------------------------------------------
(* C28 *)

\* C28: one call of trigger calls, once each and in registration order,
\* exactly the listeners that were registered when the call started, and
\* returns that many results, also when a listener unregisters itself or
\* another listener, registers a listener or calls clear() during the call.
CounterexampleC28 ==
    lastCall.op = "hook.trigger" =>
        /\ lastCall.calls = EntryIds(lastCall.before.listeners)
        /\ Len(lastCall.results) = Len(lastCall.before.listeners)

----------------------------------------------------------------------------
(* C23 *)

\* the step is a keydown that processKeyEvent has to ignore: the processor
\* is not active, or the key is a modifier key
IgnoredKeyDown ==
    /\ lastCall'.op = "processKeyEvent"
    /\ ~isActive \/ lastCall'.arg \in ModifierKeys

\* C23: a keydown that has to be ignored returns false, calls neither
\* preventDefault nor stopPropagation, dispatches and notifies nothing, calls
\* no onKey listener (a listener that restarts the timer leaves no trace),
\* and leaves currentNode, matchedPath, the pending-ambiguous marker and the
\* pending timer unchanged.
TheoremC23 ==
    [][IgnoredKeyDown
       => /\ lastCall'.ret = FALSE
          /\ ~lastCall'.prevented
          /\ lastCall'.log = << >>
          /\ lastCall'.hooks = << >>
          /\ ~lastCall'.reached
          /\ UNCHANGED <<currentNode, matchedPath, pending, timeoutId,
                         timeoutType, timers, heldKeys, intervals>>]_vars

\* on an inactive processor that waits at the prefix a of the binding a b
\* with the SEQUENCE timer pending, a keydown of b came with a listener that
\* would have restarted the timer as AMBIGUOUS
WitnessC23 ==
    /\ lastCall.op = "processKeyEvent"
    /\ ~isActive
    /\ lastCall.arg = "b"
    /\ lastCall.restart = "AMBIGUOUS"
    /\ lastCall.node = <<"a">>
    /\ HasChild(Trie, <<"a">>, "b")
    /\ currentNode = <<"a">>
    /\ timeoutType = "SEQUENCE"

\* a keydown of Shift came while the processor waited at the prefix a
WitnessC23Modifier ==
    /\ lastCall.op = "processKeyEvent"
    /\ isActive
    /\ lastCall.arg = "Shift"
    /\ lastCall.node = <<"a">>
    /\ currentNode = <<"a">>

----------------------------------------------------------------------------
(* C24 *)

\* the last call parsed a bare uppercase letter
ParsedCapital ==
    /\ lastCall.op = "parseKey"
    /\ Len(lastCall.arg) = 1
    /\ IsUpper(lastCall.arg[1])

\* a keydown event of a key without ctrl, alt and meta
PlainEvent(key, shiftKey) ==
    [key |-> key, shiftKey |-> shiftKey, ctrlKey |-> FALSE, altKey |-> FALSE,
     metaKey |-> FALSE]

\* C24: for every letter x, parseKey of the bare uppercase X and parseKey of
\* <S-x> give keys that are equal under keysMatch and have the canonical
\* string S-x, and eventToKey of an event with key X, with or without
\* shiftKey, gives that string too.
TheoremC24 ==
    ParsedCapital =>
        LET x == ToLowerChar(lastCall.arg[1])
            bracketed == ParseKey(<<"<", "S", "-", x, ">">>)
        IN  /\ KeysMatch(lastCall.ret, bracketed)
            /\ lastCall.ret.string = <<"S", "-", x>>
            /\ bracketed.string = <<"S", "-", x>>
            /\ \A shiftKey \in BOOLEAN :
                  EventToKey(PlainEvent(lastCall.arg, shiftKey)).string
                      = <<"S", "-", x>>

\* the bare letter S, whose lowercase form starts the modifier prefix s-,
\* was parsed to the key s with shift
WitnessC24 ==
    /\ ParsedCapital
    /\ lastCall.arg = <<"S">>
    /\ lastCall.ret.key = <<"s">>
    /\ lastCall.ret.modifiers.shift
    /\ lastCall.ret.string = <<"S", "-", "s">>

----------------------------------------------------------------------------
(* C25 *)

\* the concatenation of a list of tokens
RECURSIVE Flatten(_)
Flatten(tokens) ==
    IF tokens = << >> THEN << >> ELSE Head(tokens) \o Flatten(Tail(tokens))

\* a token that is one <...> span
IsSpan(token) ==
    /\ Len(token) >= 2
    /\ token[1] = "<"
    /\ token[Len(token)] = ">"
    /\ \A i \in 2..(Len(token) - 1) : token[i] \notin {"<", ">"}

\* C25: parseKeySequence splits the notation string without loss: the
\* tokens, in order, make up the string, every token is one <...> span or
\* one character, and a string of length n without '<' yields n keys.
CounterexampleC25 ==
    lastCall.op = "parseKeySequence" =>
        /\ Flatten(lastCall.tokens) = lastCall.arg
        /\ \A i \in 1..Len(lastCall.tokens) :
              IsSpan(lastCall.tokens[i]) \/ Len(lastCall.tokens[i]) = 1
        /\ (\A i \in 1..Len(lastCall.arg) : lastCall.arg[i] # "<")
           => Len(lastCall.ret) = Len(lastCall.arg)

----------------------------------------------------------------------------
(* C26 *)

\* C26: with no onKey listener registered, a keydown handled by
\* processKeyEvent dispatches what processKeyParsed of the same key would
\* have dispatched in the same state, leaves the same currentNode,
\* matchedPath, pending marker and timer, and reports the same
\* consumed / forwarded result, also when the processor is ambiguous and the
\* key is a force-execute key.
CounterexampleC26 ==
    [][(lastCall'.op = "processKeyEvent" /\ onKeyCount = 0)
       => LET parsed == ProcessKeyParsed(State, EventToKeyString(lastCall'.arg),
                                         << >>, "none")
          IN  /\ Dispatches(lastCall'.log) = Dispatches(parsed.log)
              /\ currentNode' = parsed.currentNode
              /\ matchedPath' = parsed.matchedPath
              /\ pending' = parsed.pending
              /\ timeoutType' = parsed.timeoutType
              /\ timers' = parsed.timers
              /\ lastCall'.ret = parsed.ret]_vars

----------------------------------------------------------------------------
(* C27 *)

\* C27: when timers are allowed to fire and from some point on no key is
\* delivered any more, the processor eventually is at the root and stays
\* there: a started sequence or a pending ambiguous match is resolved by
\* its timer, also after an onKey listener has forwarded a key in the
\* middle of the sequence.
CounterexampleC27 ==
    <>[][~(KeyEvent \/ KeyParsed)]_vars => <>[](currentNode = RootNode)

----------------------------------------------------------------------------
(* C29 *)

\* the key string of the key call recorded in lastCall
CalledKey ==
    IF lastCall.op = "processKeyEvent" THEN EventToKeyString(lastCall.arg)
    ELSE lastCall.arg

\* a sequence completed in the recorded call: a key call or a timer expiry
\* ran the completion hooks of design B
SequenceCompleted ==
    /\ variant = "B"
    /\ lastCall.op \in {"processKeyEvent", "processKeyParsed", "timer"}
    /\ lastCall.hooks # << >>

\* the node the sequence completed at: the child the key advanced to
\* (terminal match), else the node the call started from (force execute,
\* ambiguous fallthrough, ambiguity timeout)
CompletedNode ==
    IF lastCall.adv THEN Append(lastCall.node, CalledKey) ELSE lastCall.node

\* C29: when a key sequence completes at node N (terminal match, force
\* execute, ambiguous fallthrough or ambiguity timeout), the
\* onSequenceComplete hook of N itself is among the node hooks triggered.
CounterexampleC29 ==
    SequenceCompleted =>
        \E i \in DOMAIN lastCall.hooks : lastCall.hooks[i] = CompletedNode

----------------------------------------------------------------------------
(* C30 *)

\* C30: for a completed sequence, the completion hook of no node, the root
\* included, is triggered more than once.
CounterexampleC30 ==
    (/\ lastCall.op \in {"processKeyEvent", "processKeyParsed", "timer"}
     /\ lastCall.hooks # << >>)
       => \A i, j \in DOMAIN lastCall.hooks :
             lastCall.hooks[i] = lastCall.hooks[j] => i = j

----------------------------------------------------------------------------
(* C31 *)

\* C31: when the AMBIGUOUS timer expires on a pending match, the call emits
\* the notifications that a force-execute key would have emitted in the
\* same state (the dispatch of the pending binding, the per-node completion
\* hooks and onActionExecuted, in this order) and the processor is at ROOT.
CounterexampleC31 ==
    [][(/\ lastCall'.op = "timer"
        /\ lastCall'.arg = "AMBIGUOUS"
        /\ pending # NoPending)
       => /\ lastCall'.log = ForceExecute(State).log
          /\ lastCall'.hooks = ForceExecute(State).hooks
          /\ currentNode' = RootNode]_vars

----------------------------------------------------------------------------
(* C32 *)

\* C32: over repeat bindings of a key and of a chord with a modifier
\* (C-a), once every physical key has been released, in whatever order,
\* heldKeys holds no key-string any more and no repeat interval is running.
CounterexampleC32 ==
    down = {} => (DOMAIN heldKeys = {} /\ intervals = {})

----------------------------------------------------------------------------
(* C33 *)

\* the notifications that dispatch a binding once
BindingDispatches(log) ==
    SelectSeq(log, LAMBDA n : n.kind \in {"callback", "onSequenceComplete",
                                          "onAmbiguousTimeout"})

\* C33: every dispatch notification of a key call or a timer expiry reports
\* a key sequence that is terminal in the current mode's trie and that is
\* the keys consumed since the processor last was at ROOT (with the key of
\* the call when it advanced), never a sequence of an earlier attempt.
CounterexampleC33 ==
    [][(lastCall'.op \in {"processKeyEvent", "processKeyParsed", "timer"})
       => \A i \in DOMAIN BindingDispatches(lastCall'.log) :
             LET n == BindingDispatches(lastCall'.log)[i]
             IN  /\ n.keySequence \in Trie.term
                 /\ n.keySequence = IF lastCall'.adv
                                    THEN Append(walked, CalledKey')
                                    ELSE walked]_vars

----------------------------------------------------------------------------
(* C34 *)

\* C34: a tick of the repeat interval of a held binding dispatches with the
\* key sequence of the binding, which its first dispatch reported, wherever
\* currentNode and matchedPath are when the tick fires.
CounterexampleC34 ==
    lastCall.op = "interval"
       => \A i \in DOMAIN Dispatches(lastCall.log) :
             Dispatches(lastCall.log)[i].keySequence = lastCall.arg.info

----------------------------------------------------------------------------
(* C35 *)

\* C35: while isActive is false, a key call, a timer expiry and a tick of a
\* repeat interval dispatch nothing, and a keyup of a non-modifier key
\* leaves its key-string out of heldKeys.
CounterexampleC35 ==
    ~isActive =>
        /\ lastCall.op \in {"processKeyEvent", "processKeyParsed", "timer", "interval"}
              => Dispatches(lastCall.log) = << >>
        /\ (lastCall.op = "handleKeyUp" /\ lastCall.arg \notin ModifierKeys)
              => EventToKeyString(lastCall.arg) \notin DOMAIN heldKeys

----------------------------------------------------------------------------
(* C36 *)

\* C36: after clear() heldKeys is empty and no repeat interval is running,
\* so that no binding of the discarded trie is dispatched again.
CounterexampleC36 ==
    lastCall.op = "clear" => (DOMAIN heldKeys = {} /\ intervals = {})

----------------------------------------------------------------------------
(* C37 *)

\* the calls that interrupt an attempt
InterruptingCalls == {"setMode", "clear", "clearAll", "reset"}

\* C37: a call of setMode, clear, clearAll or reset made while a sequence
\* is in progress or an ambiguous match is pending dispatches nothing and
\* leaves the processor at ROOT with no pending-ambiguous marker and no
\* timer scheduled, so that nothing of the interrupted attempt can fire.
CounterexampleC37 ==
    (/\ lastCall.op \in InterruptingCalls
     /\ (lastCall.node # RootNode \/ lastCall.pend # NoPending))
       => /\ Dispatches(lastCall.log) = << >>
          /\ currentNode = RootNode /\ matchedPath = << >>
          /\ pending = NoPending
          /\ timers = {} /\ timeoutId = 0

----------------------------------------------------------------------------
(* C38 *)

\* C38: after set(notation, value, options) with options.repeat given, the
\* terminal node of the binding carries the repeat option.
CounterexampleC38 ==
    lastCall.op = "set(options)"
       => ParseKeyStrings(lastCall.arg.keys) \in Trie.repeat

----------------------------------------------------------------------------
(* C39 *)

\* C39: parseKey returns without throwing for every token under every
\* placeholder table, tables with a placeholder that maps to itself or with
\* a cycle of placeholders included, and a token that is no registered
\* placeholder is parsed as literal text.
CounterexampleC39 ==
    lastCall.op = "parseKey(placeholders)"
       => /\ ~lastCall.threw
          /\ lastCall.arg \notin DOMAIN placeholders
                => lastCall.string = ParseKey(lastCall.arg).string

----------------------------------------------------------------------------
(* C40 *)

\* C40: for every letter and every combination of the ctrl, alt, shift and
\* command flags, parseKey of the bracketed notation with the prefixes C-,
\* M-, S-, D- in any order and eventToKey of the keyboard event with those
\* flags give the same canonical string, in which the prefixes stand in the
\* order C- M- S- D-; eventToKey never reports meta, it reports metaKey as
\* super.
TheoremC40 ==
    lastCall.op = "chord"
       => /\ lastCall.parsed = lastCall.event
          /\ ~lastCall.meta
          /\ lastCall.event =
                KeyToString(<<lastCall.arg.key>>,
                    [ctrl |-> \E i \in DOMAIN lastCall.arg.order : lastCall.arg.order[i] = "ctrl",
                     alt |-> \E i \in DOMAIN lastCall.arg.order : lastCall.arg.order[i] = "alt",
                     shift |-> \E i \in DOMAIN lastCall.arg.order : lastCall.arg.order[i] = "shift",
                     super |-> \E i \in DOMAIN lastCall.arg.order : lastCall.arg.order[i] = "super",
                     meta |-> FALSE])

\* the chord D-S-M-C-s, written against the canonical order, and its event
WitnessC40 ==
    /\ lastCall.op = "chord"
    /\ lastCall.arg = [order |-> <<"super", "shift", "alt", "ctrl">>, key |-> "s"]
    /\ lastCall.parsed = <<"C", "-", "M", "-", "S", "-", "D", "-", "s">>
    /\ lastCall.event = lastCall.parsed

====
